---------------------------- MODULE Spec2Model ----------------------------
(***************************************************************************)
(* The tools of the two agent crews (creatio_crm_crew, devlifecycle_crew)  *)
(* and the question routing of CreatioCRMCrew, as a state machine: a       *)
(* caller invokes one tool at a time; the state is the two module-level    *)
(* tables, the invocation in progress and what it returned.                *)
(*                                                                         *)
(* Python values: str -> TLA+ string, list -> sequence, dict -> record,    *)
(* bool -> BOOLEAN, int -> integer.  Every tool ends with str(result); the *)
(* model keeps the dict that str() renders.  An exception that leaves _run *)
(* is the record [raised |-> <exception class>].                           *)
(***************************************************************************)
EXTENDS Integers, Sequences, FiniteSets, TLC

VARIABLES
    schema,     \* creatio_crm_crew.tools.schema_tools.CREATIO_SCHEMA_KNOWLEDGE
    kpi,        \* creatio_crm_crew.tools.metrics_tools.CRM_KPI_LIBRARY
    pc,         \* "idle": the caller holds no result; "running": a method is
                \* inside crew.kickoff(); "returned": a call has returned
    call,       \* the invocation that returned last: [tool |-> ..., args |-> [...]]
    result,     \* what it returned (the dict before str()), or [raised |-> ...]
    earlier,    \* what the same call returned the time before, when it was repeated
    kickoff,    \* the Crew a method has built and called kickoff() on
    session     \* devlifecycle_crew.cli.interactive: where its loop stands

vars == <<schema, kpi, pc, call, result, earlier, kickoff, session>>

---------------------------------------------------------------------------
(* Python's None, for Optional[str] parameters.  It is rendered "None" by  *)
(* str() and f-strings; no input of the model is the four-letter string.   *)
None == "None"

(* bool(s) for an Optional[str]: None and '' are falsy.                    *)
Truthy(s) == s # None /\ s # ""

UpperChars == "ABCDEFGHIJKLMNOPQRSTUVWXYZ"
LowerChars == "abcdefghijklmnopqrstuvwxyz"

CharAt(s, i) == SubSeq(s, i, i)

LowerChar(c) ==
    IF \E i \in 1..Len(UpperChars) : CharAt(UpperChars, i) = c
    THEN CharAt(LowerChars, CHOOSE i \in 1..Len(UpperChars) : CharAt(UpperChars, i) = c)
    ELSE c

UpperChar(c) ==
    IF \E i \in 1..Len(LowerChars) : CharAt(LowerChars, i) = c
    THEN CharAt(UpperChars, CHOOSE i \in 1..Len(LowerChars) : CharAt(LowerChars, i) = c)
    ELSE c

(* str.lower() and str.upper() on ASCII text.                              *)
RECURSIVE Lower(_)
Lower(s) == IF s = "" THEN "" ELSE LowerChar(CharAt(s, 1)) \o Lower(SubSeq(s, 2, Len(s)))

RECURSIVE Upper(_)
Upper(s) == IF s = "" THEN "" ELSE UpperChar(CharAt(s, 1)) \o Upper(SubSeq(s, 2, Len(s)))

(* sub in s                                                                *)
Contains(s, sub) ==
    \E i \in 0..(Len(s) - Len(sub)) : SubSeq(s, i + 1, i + Len(sub)) = sub

(* s.endswith(suffix)                                                      *)
EndsWith(s, suffix) ==
    Len(suffix) <= Len(s) /\ SubSeq(s, Len(s) - Len(suffix) + 1, Len(s)) = suffix

(* s.startswith(prefix)                                                    *)
StartsWith(s, prefix) ==
    Len(prefix) <= Len(s) /\ SubSeq(s, 1, Len(prefix)) = prefix

(* The characters str.isspace() holds for, which str.strip() and           *)
(* str.split() without a separator remove: space, U+0009..U+000D,          *)
(* U+001C..U+001F, U+0085, U+00A0 and U+1680.  Python counts U+2000..U+200A, *)
(* U+2028, U+2029, U+202F, U+205F and U+3000 as well; a string of this     *)
(* module cannot hold them, and no input of the model does.                *)
WhitespaceChars ==
    {" ", "\t", "\n", "\r", "\f", "", "", "", "", "", "", " ", " "}

(* c.isspace() for one character                                           *)
IsSpace(c) == c \in WhitespaceChars

(* str.strip(): leading and trailing whitespace removed.                   *)
RECURSIVE LStrip(_)
LStrip(s) == IF s # "" /\ IsSpace(CharAt(s, 1)) THEN LStrip(SubSeq(s, 2, Len(s))) ELSE s

RECURSIVE RStrip(_)
RStrip(s) == IF s # "" /\ IsSpace(CharAt(s, Len(s))) THEN RStrip(SubSeq(s, 1, Len(s) - 1)) ELSE s

Strip(s) == RStrip(LStrip(s))

(* s.split(sep) for a one-character separator: always at least one piece. *)
RECURSIVE SplitFrom(_, _, _)
SplitFrom(s, sep, piece) ==
    IF s = "" THEN <<piece>>
    ELSE IF CharAt(s, 1) = sep
         THEN <<piece>> \o SplitFrom(SubSeq(s, 2, Len(s)), sep, "")
         ELSE SplitFrom(SubSeq(s, 2, Len(s)), sep, piece \o CharAt(s, 1))

Split(s, sep) == SplitFrom(s, sep, "")

(* sep.join(parts)                                                         *)
RECURSIVE Join(_, _)
Join(parts, sep) ==
    IF parts = << >> THEN ""
    ELSE IF Len(parts) = 1 THEN parts[1]
    ELSE parts[1] \o sep \o Join(Tail(parts), sep)

(* s.replace(old, new) for a non-empty old: leftmost, non-overlapping.     *)
RECURSIVE Replace(_, _, _)
Replace(s, old, new) ==
    IF Len(s) < Len(old) THEN s
    ELSE IF StartsWith(s, old)
         THEN new \o Replace(SubSeq(s, Len(old) + 1, Len(s)), old, new)
         ELSE CharAt(s, 1) \o Replace(SubSeq(s, 2, Len(s)), old, new)

(* the concatenation of a sequence of sequences                            *)
RECURSIVE Flatten(_)
Flatten(seqs) == IF seqs = << >> THEN << >> ELSE Head(seqs) \o Flatten(Tail(seqs))

(* d.get(key, default) on a record                                         *)
Get(d, key, default) == IF key \in DOMAIN d THEN d[key] ELSE default

(* seq[:n]                                                                 *)
Take(seq, n) == SubSeq(seq, 1, IF n < Len(seq) THEN n ELSE Len(seq))

(* seq[:n] for any integer n: a negative n counts from the end.            *)
SliceTo(seq, n) ==
    LET stop == IF n < 0 THEN Len(seq) + n ELSE n
    IN  SubSeq(seq, 1, IF stop > Len(seq) THEN Len(seq) ELSE stop)

(* the elements of a sequence                                              *)
Range(seq) == {seq[i] : i \in 1..Len(seq)}

---------------------------------------------------------------------------
(***************************************************************************)
(* The static tables, as the modules define them.                          *)
(***************************************************************************)
CREATIO_SCHEMA_KNOWLEDGE ==
  [ Contact |-> [ description |-> "Core entity storing person/individual information",
      table_name |-> "Contact",
      key_columns |-> <<
        [name |-> "Id", type |-> "uniqueidentifier", description |-> "Primary key"],
        [name |-> "Name", type |-> "nvarchar(250)", description |-> "Full name of the contact"],
        [name |-> "AccountId", type |-> "uniqueidentifier", description |-> "FK to Account - associated company"],
        [name |-> "Email", type |-> "nvarchar(250)", description |-> "Primary email address"],
        [name |-> "Phone", type |-> "nvarchar(250)", description |-> "Primary phone number"],
        [name |-> "MobilePhone", type |-> "nvarchar(250)", description |-> "Mobile phone number"],
        [name |-> "JobTitle", type |-> "nvarchar(250)", description |-> "Contact's job title"],
        [name |-> "DepartmentId", type |-> "uniqueidentifier", description |-> "FK to Department lookup"],
        [name |-> "OwnerId", type |-> "uniqueidentifier", description |-> "FK to Contact - record owner"],
        [name |-> "TypeId", type |-> "uniqueidentifier", description |-> "FK to ContactType lookup"],
        [name |-> "CreatedOn", type |-> "datetime", description |-> "Record creation timestamp"],
        [name |-> "ModifiedOn", type |-> "datetime", description |-> "Last modification timestamp"] >>,
      relationships |-> <<
        [entity |-> "Account", type |-> "many-to-one", column |-> "AccountId"],
        [entity |-> "Activity", type |-> "one-to-many", detail |-> TRUE],
        [entity |-> "Opportunity", type |-> "one-to-many", via |-> "OpportunityContact"],
        [entity |-> "Lead", type |-> "one-to-one", column |-> "QualifiedContactId"] >> ],
    Account |-> [ description |-> "Core entity storing company/organization information",
      table_name |-> "Account",
      key_columns |-> <<
        [name |-> "Id", type |-> "uniqueidentifier", description |-> "Primary key"],
        [name |-> "Name", type |-> "nvarchar(250)", description |-> "Company name"],
        [name |-> "TypeId", type |-> "uniqueidentifier", description |-> "FK to AccountType lookup"],
        [name |-> "IndustryId", type |-> "uniqueidentifier", description |-> "FK to AccountIndustry lookup"],
        [name |-> "OwnerId", type |-> "uniqueidentifier", description |-> "FK to Contact - account owner"],
        [name |-> "PrimaryContactId", type |-> "uniqueidentifier", description |-> "FK to Contact - primary contact"],
        [name |-> "Phone", type |-> "nvarchar(250)", description |-> "Main phone number"],
        [name |-> "Web", type |-> "nvarchar(250)", description |-> "Website URL"],
        [name |-> "AnnualRevenue", type |-> "decimal", description |-> "Annual revenue amount"],
        [name |-> "EmployeesNumber", type |-> "int", description |-> "Number of employees"],
        [name |-> "CreatedOn", type |-> "datetime", description |-> "Record creation timestamp"],
        [name |-> "ModifiedOn", type |-> "datetime", description |-> "Last modification timestamp"] >>,
      relationships |-> <<
        [entity |-> "Contact", type |-> "one-to-many", column |-> "AccountId"],
        [entity |-> "Opportunity", type |-> "one-to-many", column |-> "AccountId"],
        [entity |-> "Activity", type |-> "one-to-many", detail |-> TRUE],
        [entity |-> "Case", type |-> "one-to-many", column |-> "AccountId"] >> ],
    Opportunity |-> [ description |-> "Sales opportunity/deal tracking entity",
      table_name |-> "Opportunity",
      key_columns |-> <<
        [name |-> "Id", type |-> "uniqueidentifier", description |-> "Primary key"],
        [name |-> "Title", type |-> "nvarchar(250)", description |-> "Opportunity name/title"],
        [name |-> "AccountId", type |-> "uniqueidentifier", description |-> "FK to Account"],
        [name |-> "StageId", type |-> "uniqueidentifier", description |-> "FK to OpportunityStage lookup"],
        [name |-> "Amount", type |-> "decimal", description |-> "Deal value/amount"],
        [name |-> "Probability", type |-> "int", description |-> "Win probability percentage"],
        [name |-> "OwnerId", type |-> "uniqueidentifier", description |-> "FK to Contact - opportunity owner"],
        [name |-> "CloseDate", type |-> "datetime", description |-> "Expected close date"],
        [name |-> "DueDate", type |-> "datetime", description |-> "Due date"],
        [name |-> "LeadTypeId", type |-> "uniqueidentifier", description |-> "FK to LeadType - source type"],
        [name |-> "IsPrimary", type |-> "bit", description |-> "Primary opportunity flag"],
        [name |-> "CreatedOn", type |-> "datetime", description |-> "Record creation timestamp"],
        [name |-> "ModifiedOn", type |-> "datetime", description |-> "Last modification timestamp"] >>,
      relationships |-> <<
        [entity |-> "Account", type |-> "many-to-one", column |-> "AccountId"],
        [entity |-> "Contact", type |-> "many-to-many", via |-> "OpportunityContact"],
        [entity |-> "OpportunityStage", type |-> "many-to-one", column |-> "StageId"],
        [entity |-> "Product", type |-> "many-to-many", via |-> "OpportunityProductInterest"],
        [entity |-> "Activity", type |-> "one-to-many", detail |-> TRUE] >> ],
    Lead |-> [ description |-> "Sales lead entity - potential customers before qualification",
      table_name |-> "Lead",
      key_columns |-> <<
        [name |-> "Id", type |-> "uniqueidentifier", description |-> "Primary key"],
        [name |-> "LeadName", type |-> "nvarchar(250)", description |-> "Lead name/title"],
        [name |-> "Contact", type |-> "nvarchar(250)", description |-> "Contact person name"],
        [name |-> "Account", type |-> "nvarchar(250)", description |-> "Company name (text)"],
        [name |-> "Email", type |-> "nvarchar(250)", description |-> "Email address"],
        [name |-> "MobilePhone", type |-> "nvarchar(250)", description |-> "Mobile phone"],
        [name |-> "QualifyStatusId", type |-> "uniqueidentifier", description |-> "FK to QualifyStatus lookup"],
        [name |-> "LeadSourceId", type |-> "uniqueidentifier", description |-> "FK to LeadSource lookup"],
        [name |-> "LeadTypeId", type |-> "uniqueidentifier", description |-> "FK to LeadType lookup"],
        [name |-> "OwnerId", type |-> "uniqueidentifier", description |-> "FK to Contact - lead owner"],
        [name |-> "QualifiedContactId", type |-> "uniqueidentifier", description |-> "FK to Contact - converted contact"],
        [name |-> "QualifiedAccountId", type |-> "uniqueidentifier", description |-> "FK to Account - converted account"],
        [name |-> "Budget", type |-> "decimal", description |-> "Estimated budget"],
        [name |-> "CreatedOn", type |-> "datetime", description |-> "Record creation timestamp"] >>,
      relationships |-> <<
        [entity |-> "Contact", type |-> "one-to-one", column |-> "QualifiedContactId"],
        [entity |-> "Account", type |-> "one-to-one", column |-> "QualifiedAccountId"],
        [entity |-> "Activity", type |-> "one-to-many", detail |-> TRUE] >> ],
    Activity |-> [ description |-> "Activities including calls, emails, tasks, meetings",
      table_name |-> "Activity",
      key_columns |-> <<
        [name |-> "Id", type |-> "uniqueidentifier", description |-> "Primary key"],
        [name |-> "Title", type |-> "nvarchar(500)", description |-> "Activity subject/title"],
        [name |-> "TypeId", type |-> "uniqueidentifier", description |-> "FK to ActivityType lookup"],
        [name |-> "StatusId", type |-> "uniqueidentifier", description |-> "FK to ActivityStatus lookup"],
        [name |-> "PriorityId", type |-> "uniqueidentifier", description |-> "FK to ActivityPriority lookup"],
        [name |-> "OwnerId", type |-> "uniqueidentifier", description |-> "FK to Contact - activity owner"],
        [name |-> "ContactId", type |-> "uniqueidentifier", description |-> "FK to Contact - related contact"],
        [name |-> "AccountId", type |-> "uniqueidentifier", description |-> "FK to Account - related account"],
        [name |-> "OpportunityId", type |-> "uniqueidentifier", description |-> "FK to Opportunity"],
        [name |-> "StartDate", type |-> "datetime", description |-> "Activity start date/time"],
        [name |-> "DueDate", type |-> "datetime", description |-> "Activity due date/time"],
        [name |-> "ResultId", type |-> "uniqueidentifier", description |-> "FK to ActivityResult lookup"],
        [name |-> "CreatedOn", type |-> "datetime", description |-> "Record creation timestamp"] >>,
      relationships |-> <<
        [entity |-> "Contact", type |-> "many-to-one", column |-> "ContactId"],
        [entity |-> "Account", type |-> "many-to-one", column |-> "AccountId"],
        [entity |-> "Opportunity", type |-> "many-to-one", column |-> "OpportunityId"],
        [entity |-> "ActivityParticipant", type |-> "one-to-many", detail |-> TRUE] >> ],
    Case |-> [ description |-> "Customer service case/ticket entity",
      table_name |-> "Case",
      key_columns |-> <<
        [name |-> "Id", type |-> "uniqueidentifier", description |-> "Primary key"],
        [name |-> "Number", type |-> "nvarchar(250)", description |-> "Case number"],
        [name |-> "Subject", type |-> "nvarchar(500)", description |-> "Case subject"],
        [name |-> "StatusId", type |-> "uniqueidentifier", description |-> "FK to CaseStatus lookup"],
        [name |-> "PriorityId", type |-> "uniqueidentifier", description |-> "FK to CasePriority lookup"],
        [name |-> "CategoryId", type |-> "uniqueidentifier", description |-> "FK to CaseCategory lookup"],
        [name |-> "ContactId", type |-> "uniqueidentifier", description |-> "FK to Contact - reporting contact"],
        [name |-> "AccountId", type |-> "uniqueidentifier", description |-> "FK to Account - associated account"],
        [name |-> "OwnerId", type |-> "uniqueidentifier", description |-> "FK to Contact - case owner"],
        [name |-> "GroupId", type |-> "uniqueidentifier", description |-> "FK to SysAdminUnit - assigned group"],
        [name |-> "RegisteredOn", type |-> "datetime", description |-> "Registration timestamp"],
        [name |-> "SolutionDate", type |-> "datetime", description |-> "Solution/resolution date"],
        [name |-> "SatisfactionLevelId", type |-> "uniqueidentifier", description |-> "FK to SatisfactionLevel lookup"],
        [name |-> "CreatedOn", type |-> "datetime", description |-> "Record creation timestamp"] >>,
      relationships |-> <<
        [entity |-> "Contact", type |-> "many-to-one", column |-> "ContactId"],
        [entity |-> "Account", type |-> "many-to-one", column |-> "AccountId"],
        [entity |-> "Activity", type |-> "one-to-many", detail |-> TRUE] >> ],
    Product |-> [ description |-> "Product catalog entity",
      table_name |-> "Product",
      key_columns |-> <<
        [name |-> "Id", type |-> "uniqueidentifier", description |-> "Primary key"],
        [name |-> "Name", type |-> "nvarchar(250)", description |-> "Product name"],
        [name |-> "Code", type |-> "nvarchar(50)", description |-> "Product code/SKU"],
        [name |-> "TypeId", type |-> "uniqueidentifier", description |-> "FK to ProductType lookup"],
        [name |-> "CategoryId", type |-> "uniqueidentifier", description |-> "FK to ProductCategory lookup"],
        [name |-> "Price", type |-> "decimal", description |-> "Unit price"],
        [name |-> "IsActive", type |-> "bit", description |-> "Active flag"],
        [name |-> "Description", type |-> "nvarchar(max)", description |-> "Product description"],
        [name |-> "CreatedOn", type |-> "datetime", description |-> "Record creation timestamp"] >>,
      relationships |-> <<
        [entity |-> "Opportunity", type |-> "many-to-many", via |-> "OpportunityProductInterest"],
        [entity |-> "Order", type |-> "one-to-many", via |-> "OrderProduct"] >> ],
    Order |-> [ description |-> "Sales order entity",
      table_name |-> "Order",
      key_columns |-> <<
        [name |-> "Id", type |-> "uniqueidentifier", description |-> "Primary key"],
        [name |-> "Number", type |-> "nvarchar(250)", description |-> "Order number"],
        [name |-> "AccountId", type |-> "uniqueidentifier", description |-> "FK to Account - customer"],
        [name |-> "ContactId", type |-> "uniqueidentifier", description |-> "FK to Contact - order contact"],
        [name |-> "OpportunityId", type |-> "uniqueidentifier", description |-> "FK to Opportunity - source opportunity"],
        [name |-> "StatusId", type |-> "uniqueidentifier", description |-> "FK to OrderStatus lookup"],
        [name |-> "Amount", type |-> "decimal", description |-> "Order total amount"],
        [name |-> "OwnerId", type |-> "uniqueidentifier", description |-> "FK to Contact - order owner"],
        [name |-> "Date", type |-> "datetime", description |-> "Order date"],
        [name |-> "CreatedOn", type |-> "datetime", description |-> "Record creation timestamp"] >>,
      relationships |-> <<
        [entity |-> "Account", type |-> "many-to-one", column |-> "AccountId"],
        [entity |-> "Contact", type |-> "many-to-one", column |-> "ContactId"],
        [entity |-> "Opportunity", type |-> "many-to-one", column |-> "OpportunityId"],
        [entity |-> "OrderProduct", type |-> "one-to-many", detail |-> TRUE] >> ],
    SysAdminUnit |-> [ description |-> "System users and groups (security model)",
      table_name |-> "SysAdminUnit",
      key_columns |-> <<
        [name |-> "Id", type |-> "uniqueidentifier", description |-> "Primary key"],
        [name |-> "Name", type |-> "nvarchar(250)", description |-> "User/group name"],
        [name |-> "ContactId", type |-> "uniqueidentifier", description |-> "FK to Contact - linked contact"],
        [name |-> "SysAdminUnitTypeId", type |-> "uniqueidentifier", description |-> "FK - user type (user, role, org)"],
        [name |-> "ParentRoleId", type |-> "uniqueidentifier", description |-> "FK to parent role/group"],
        [name |-> "Active", type |-> "bit", description |-> "Active flag"],
        [name |-> "LoggedIn", type |-> "bit", description |-> "Currently logged in flag"] >>,
      relationships |-> <<
        [entity |-> "Contact", type |-> "one-to-one", column |-> "ContactId"],
        [entity |-> "SysAdminUnit", type |-> "self-referencing", column |-> "ParentRoleId"] >> ] ]

CRM_KPI_LIBRARY ==
  [ sales |-> [ pipeline_value |-> [ name |-> "Pipeline Value",
        description |-> "Total value of open opportunities in the sales pipeline",
        formula |-> "SUM(Opportunity.Amount) WHERE Opportunity.Stage.IsFinal = 0",
        unit |-> "currency",
        frequency |-> "daily",
        entities |-> <<"Opportunity", "OpportunityStage">> ],
      win_rate |-> [ name |-> "Win Rate",
        description |-> "Percentage of opportunities closed as won",
        formula |-> "(COUNT(Won Opportunities) / COUNT(All Closed Opportunities)) * 100",
        unit |-> "percentage",
        frequency |-> "monthly",
        entities |-> <<"Opportunity", "OpportunityStage">> ],
      average_deal_size |-> [ name |-> "Average Deal Size",
        description |-> "Average value of closed-won opportunities",
        formula |-> "AVG(Opportunity.Amount) WHERE Stage.Name = 'Closed won'",
        unit |-> "currency",
        frequency |-> "monthly",
        entities |-> <<"Opportunity">> ],
      sales_cycle_length |-> [ name |-> "Sales Cycle Length",
        description |-> "Average days from opportunity creation to close",
        formula |-> "AVG(DATEDIFF(day, Opportunity.CreatedOn, Opportunity.CloseDate))",
        unit |-> "days",
        frequency |-> "monthly",
        entities |-> <<"Opportunity">> ],
      lead_conversion_rate |-> [ name |-> "Lead Conversion Rate",
        description |-> "Percentage of leads converted to opportunities",
        formula |-> "(COUNT(Converted Leads) / COUNT(All Leads)) * 100",
        unit |-> "percentage",
        frequency |-> "monthly",
        entities |-> <<"Lead">> ],
      revenue_by_rep |-> [ name |-> "Revenue by Sales Rep",
        description |-> "Total closed revenue per sales representative",
        formula |-> "SUM(Opportunity.Amount) GROUP BY OwnerId WHERE Stage = 'Closed won'",
        unit |-> "currency",
        frequency |-> "monthly",
        entities |-> <<"Opportunity", "Contact">> ],
      quota_attainment |-> [ name |-> "Quota Attainment",
        description |-> "Percentage of sales quota achieved",
        formula |-> "(Actual Revenue / Target Quota) * 100",
        unit |-> "percentage",
        frequency |-> "monthly",
        entities |-> <<"Opportunity", "SalesTarget">> ],
      opportunity_velocity |-> [ name |-> "Opportunity Velocity",
        description |-> "Rate at which opportunities move through pipeline",
        formula |-> "(# Opportunities * Win Rate * Avg Deal) / Sales Cycle",
        unit |-> "currency/day",
        frequency |-> "monthly",
        entities |-> <<"Opportunity">> ] ],
    marketing |-> [ lead_volume |-> [ name |-> "Lead Volume",
        description |-> "Number of new leads created in period",
        formula |-> "COUNT(Lead) WHERE CreatedOn IN period",
        unit |-> "count",
        frequency |-> "weekly",
        entities |-> <<"Lead">> ],
      lead_source_effectiveness |-> [ name |-> "Lead Source Effectiveness",
        description |-> "Leads and conversions by source",
        formula |-> "COUNT(Lead) GROUP BY LeadSourceId",
        unit |-> "count",
        frequency |-> "monthly",
        entities |-> <<"Lead", "LeadSource">> ],
      marketing_qualified_leads |-> [ name |-> "Marketing Qualified Leads (MQL)",
        description |-> "Leads meeting marketing qualification criteria",
        formula |-> "COUNT(Lead) WHERE QualifyStatus = 'Marketing Qualified'",
        unit |-> "count",
        frequency |-> "weekly",
        entities |-> <<"Lead", "QualifyStatus">> ],
      cost_per_lead |-> [ name |-> "Cost Per Lead",
        description |-> "Marketing spend divided by leads generated",
        formula |-> "Marketing Spend / COUNT(Leads)",
        unit |-> "currency",
        frequency |-> "monthly",
        entities |-> <<"Lead", "Campaign">> ],
      campaign_roi |-> [ name |-> "Campaign ROI",
        description |-> "Return on investment for marketing campaigns",
        formula |-> "((Revenue - Cost) / Cost) * 100",
        unit |-> "percentage",
        frequency |-> "per_campaign",
        entities |-> <<"Campaign", "Opportunity">> ] ],
    customer_service |-> [ case_volume |-> [ name |-> "Case Volume",
        description |-> "Total number of support cases",
        formula |-> "COUNT(Case)",
        unit |-> "count",
        frequency |-> "daily",
        entities |-> <<"Case">> ],
      average_resolution_time |-> [ name |-> "Average Resolution Time",
        description |-> "Average time to resolve cases",
        formula |-> "AVG(DATEDIFF(hour, Case.RegisteredOn, Case.SolutionDate))",
        unit |-> "hours",
        frequency |-> "weekly",
        entities |-> <<"Case">> ],
      first_response_time |-> [ name |-> "First Response Time",
        description |-> "Average time to first response on cases",
        formula |-> "AVG(DATEDIFF(minute, Case.RegisteredOn, FirstActivity.StartDate))",
        unit |-> "minutes",
        frequency |-> "daily",
        entities |-> <<"Case", "Activity">> ],
      customer_satisfaction |-> [ name |-> "Customer Satisfaction (CSAT)",
        description |-> "Average satisfaction score from case surveys",
        formula |-> "AVG(Case.SatisfactionLevel.Score)",
        unit |-> "score",
        frequency |-> "weekly",
        entities |-> <<"Case", "SatisfactionLevel">> ],
      sla_compliance |-> [ name |-> "SLA Compliance Rate",
        description |-> "Percentage of cases resolved within SLA",
        formula |-> "(COUNT(Cases within SLA) / COUNT(All Cases)) * 100",
        unit |-> "percentage",
        frequency |-> "weekly",
        entities |-> <<"Case", "ServicePact">> ],
      case_backlog |-> [ name |-> "Case Backlog",
        description |-> "Number of open unresolved cases",
        formula |-> "COUNT(Case) WHERE Status.IsFinal = 0",
        unit |-> "count",
        frequency |-> "daily",
        entities |-> <<"Case", "CaseStatus">> ],
      escalation_rate |-> [ name |-> "Escalation Rate",
        description |-> "Percentage of cases that required escalation",
        formula |-> "(COUNT(Escalated Cases) / COUNT(All Cases)) * 100",
        unit |-> "percentage",
        frequency |-> "weekly",
        entities |-> <<"Case">> ] ],
    customer_health |-> [ customer_lifetime_value |-> [ name |-> "Customer Lifetime Value (CLV)",
        description |-> "Total revenue expected from a customer relationship",
        formula |-> "AVG Revenue per Period * Customer Lifespan",
        unit |-> "currency",
        frequency |-> "quarterly",
        entities |-> <<"Account", "Order", "Opportunity">> ],
      churn_rate |-> [ name |-> "Churn Rate",
        description |-> "Percentage of customers lost in period",
        formula |-> "(Lost Customers / Total Customers at Start) * 100",
        unit |-> "percentage",
        frequency |-> "monthly",
        entities |-> <<"Account">> ],
      net_promoter_score |-> [ name |-> "Net Promoter Score (NPS)",
        description |-> "Customer loyalty and satisfaction metric",
        formula |-> "% Promoters - % Detractors",
        unit |-> "score",
        frequency |-> "quarterly",
        entities |-> <<"Contact", "Survey">> ],
      customer_engagement_score |-> [ name |-> "Customer Engagement Score",
        description |-> "Composite score of customer interaction levels",
        formula |-> "Weighted sum of activities, responses, purchases",
        unit |-> "score",
        frequency |-> "monthly",
        entities |-> <<"Account", "Activity", "Opportunity">> ],
      revenue_retention |-> [ name |-> "Revenue Retention Rate",
        description |-> "Percentage of revenue retained from existing customers",
        formula |-> "((End Revenue - New Revenue) / Start Revenue) * 100",
        unit |-> "percentage",
        frequency |-> "monthly",
        entities |-> <<"Account", "Order">> ] ],
    activity_metrics |-> [ activities_per_rep |-> [ name |-> "Activities per Rep",
        description |-> "Number of activities logged per sales rep",
        formula |-> "COUNT(Activity) GROUP BY OwnerId",
        unit |-> "count",
        frequency |-> "weekly",
        entities |-> <<"Activity", "Contact">> ],
      calls_made |-> [ name |-> "Calls Made",
        description |-> "Number of call activities completed",
        formula |-> "COUNT(Activity) WHERE Type = 'Call'",
        unit |-> "count",
        frequency |-> "daily",
        entities |-> <<"Activity", "ActivityType">> ],
      emails_sent |-> [ name |-> "Emails Sent",
        description |-> "Number of email activities",
        formula |-> "COUNT(Activity) WHERE Type = 'Email'",
        unit |-> "count",
        frequency |-> "daily",
        entities |-> <<"Activity", "ActivityType">> ],
      meetings_held |-> [ name |-> "Meetings Held",
        description |-> "Number of meeting activities completed",
        formula |-> "COUNT(Activity) WHERE Type = 'Meeting' AND Status = 'Completed'",
        unit |-> "count",
        frequency |-> "weekly",
        entities |-> <<"Activity", "ActivityType", "ActivityStatus">> ] ] ]

(* Insertion order of the dict keys: list(d.keys()) and iteration follow   *)
(* it.                                                                     *)
SchemaKeyOrder ==
    <<"Contact", "Account", "Opportunity", "Lead", "Activity", "Case", "Product", "Order", "SysAdminUnit">>

KpiCategoryOrder ==
    <<"sales", "marketing", "customer_service", "customer_health", "activity_metrics">>

KpiMetricOrder ==
    [ sales |-> <<"pipeline_value", "win_rate", "average_deal_size", "sales_cycle_length", "lead_conversion_rate", "revenue_by_rep", "quota_attainment", "opportunity_velocity">>,
      marketing |-> <<"lead_volume", "lead_source_effectiveness", "marketing_qualified_leads", "cost_per_lead", "campaign_roi">>,
      customer_service |-> <<"case_volume", "average_resolution_time", "first_response_time", "customer_satisfaction", "sla_compliance", "case_backlog", "escalation_rate">>,
      customer_health |-> <<"customer_lifetime_value", "churn_rate", "net_promoter_score", "customer_engagement_score", "revenue_retention">>,
      activity_metrics |-> <<"activities_per_rep", "calls_made", "emails_sent", "meetings_held">> ]

(* list(tbl.keys()): the keys a table holds, in insertion order.           *)
Keys(tbl, order) == SelectSeq(order, LAMBDA k : k \in DOMAIN tbl)

---------------------------------------------------------------------------
(***************************************************************************)
(* creatio_crm_crew/tools/schema_tools.py                                  *)
(***************************************************************************)

(* A variant of the lookup that compares the name with the keys exactly,   *)
(* without lowercasing either side.                                        *)
MatchKey_case_sensitive(tbl, name) == IF name \in DOMAIN tbl THEN name ELSE None

(* The lookup loop every entity tool starts with:                          *)
(*     for key in CREATIO_SCHEMA_KNOWLEDGE:                                *)
(*         if key.lower() == name.lower(): matched = key; break            *)
(* None when no key matches.                                               *)
MatchKey(tbl, name) ==
    LET hits == SelectSeq(Keys(tbl, SchemaKeyOrder), LAMBDA key : Lower(key) = Lower(name))
    IN  IF hits = << >> THEN None ELSE hits[1]

(* SchemaExplorerTool._run                                                 *)
SchemaExplorerTool_run(tbl, entity_name, include_relationships) ==
    LET entity_key == Strip(entity_name)
        matched_entity == MatchKey(tbl, entity_key)
        available == Keys(tbl, SchemaKeyOrder)
    IN  IF matched_entity = None
        THEN [success |-> FALSE,
              error |-> "Entity '" \o entity_name \o "' not found in schema knowledge base",
              available_entities |-> available,
              suggestion |-> "Try one of: " \o Join(available, ", ")]
        ELSE LET entity_info == tbl[matched_entity]
                 found == [success |-> TRUE,
                           entity |-> matched_entity,
                           table_name |-> entity_info.table_name,
                           description |-> entity_info.description,
                           columns |-> entity_info.key_columns,
                           column_count |-> Len(entity_info.key_columns)]
             IN  IF include_relationships
                 THEN found @@ [relationships |-> Get(entity_info, "relationships", << >>),
                                relationship_count |-> Len(Get(entity_info, "relationships", << >>))]
                 ELSE found

(* A variant of the two-hop paths that keeps the secondary relationships   *)
(* leading back to the source entity.                                      *)
RelationshipPaths_back_to_source(tbl, source_key, relationships, relationship_depth) ==
    LET PathsVia(rel) ==
            IF rel.entity \in DOMAIN tbl
            THEN LET secondary_rels == Take(Get(tbl[rel.entity], "relationships", << >>), 3)
                 IN  [i \in 1..Len(secondary_rels) |->
                        [path |-> source_key \o " -> " \o rel.entity \o " -> "
                                      \o secondary_rels[i].entity,
                         via_relationship |-> rel.type,
                         secondary_relationship |-> secondary_rels[i].type]]
            ELSE << >>
    IN  IF relationship_depth > 1
        THEN Flatten([i \in 1..Len(relationships) |-> PathsVia(relationships[i])])
        ELSE << >>

(* EntityRelationshipTool._run, lines 351-363: the two-hop paths.          *)
RelationshipPaths(tbl, source_key, relationships, relationship_depth) ==
    LET PathsVia(rel) ==
            IF rel.entity \in DOMAIN tbl
            THEN LET secondary_rels == Take(Get(tbl[rel.entity], "relationships", << >>), 3)
                     kept == SelectSeq(secondary_rels, LAMBDA sec_rel : sec_rel.entity # source_key)
                 IN  [i \in 1..Len(kept) |->
                        [path |-> source_key \o " -> " \o rel.entity \o " -> " \o kept[i].entity,
                         via_relationship |-> rel.type,
                         secondary_relationship |-> kept[i].type]]
            ELSE << >>
    IN  IF relationship_depth > 1
        THEN Flatten([i \in 1..Len(relationships) |-> PathsVia(relationships[i])])
        ELSE << >>

(* EntityRelationshipTool._run                                             *)
EntityRelationshipTool_run(tbl, source_entity, target_entity, relationship_depth) ==
    LET source_key == MatchKey(tbl, source_entity)
    IN  IF source_key = None
        THEN [success |-> FALSE,
              error |-> "Source entity '" \o source_entity \o "' not found",
              available_entities |-> Keys(tbl, SchemaKeyOrder)]
        ELSE LET all_rels == Get(tbl[source_key], "relationships", << >>)
                 target_key == IF Truthy(target_entity) THEN MatchKey(tbl, target_entity) ELSE None
                 relationships ==
                     IF target_key # None
                     THEN SelectSeq(all_rels, LAMBDA r : Lower(r.entity) = Lower(target_key))
                     ELSE all_rels
             IN  [success |-> TRUE,
                  source_entity |-> source_key,
                  direct_relationships |-> relationships,
                  relationship_paths |->
                      RelationshipPaths(tbl, source_key, relationships, relationship_depth)]

(* ColumnAnalyzerTool._run, line 400                                       *)
system_columns == <<"CreatedOn", "ModifiedOn", "CreatedById", "ModifiedById", "ProcessListeners">>

(* ColumnAnalyzerTool._run, lines 397-406: the columns that are analysed.  *)
AnalyzedColumns(tbl, entity_key, column_filter, include_system_columns) ==
    LET stored == tbl[entity_key].key_columns
        visible == IF ~include_system_columns
                   THEN SelectSeq(stored, LAMBDA c : c.name \notin Range(system_columns))
                   ELSE stored
    IN  IF Truthy(column_filter)
        THEN SelectSeq(visible, LAMBDA c : Contains(Lower(c.name), Lower(column_filter)))
        ELSE visible

(* ColumnAnalyzerTool._run, lines 417-428: the category of one column.     *)
ColumnCategory(col) ==
    IF col.name = "Id" THEN "primary_key"
    ELSE IF EndsWith(col.name, "Id") /\ col.type = "uniqueidentifier"
         THEN (IF Contains(col.description, "FK") THEN "foreign_keys" ELSE "lookup_references")
    ELSE IF Contains(col.type, "datetime") THEN "datetime_columns"
    ELSE "data_columns"

(* A variant of the categorisation in which the datetime test is not part  *)
(* of the elif chain: a datetime column is put in data_columns as well.    *)
Categorize_datetime_twice(columns) ==
    [category \in {"primary_key", "foreign_keys", "lookup_references",
                   "data_columns", "datetime_columns"} |->
        SelectSeq(columns,
                  LAMBDA col : \/ ColumnCategory(col) = category
                               \/ /\ category = "data_columns"
                                  /\ ColumnCategory(col) = "datetime_columns")]

(* ColumnAnalyzerTool._run, lines 409-428                                  *)
Categorize(columns) ==
    [category \in {"primary_key", "foreign_keys", "lookup_references",
                   "data_columns", "datetime_columns"} |->
        SelectSeq(columns, LAMBDA col : ColumnCategory(col) = category)]

(* ColumnAnalyzerTool._run                                                 *)
ColumnAnalyzerTool_run(tbl, entity_name, column_filter, include_system_columns) ==
    LET entity_key == MatchKey(tbl, entity_name)
    IN  IF entity_key = None
        THEN [success |-> FALSE,
              error |-> "Entity '" \o entity_name \o "' not found"]
        ELSE LET columns == AnalyzedColumns(tbl, entity_key, column_filter, include_system_columns)
                 categorized == Categorize(columns)
             IN  [success |-> TRUE,
                  entity |-> entity_key,
                  total_columns |-> Len(columns),
                  columns |-> columns,
                  categorized |-> categorized,
                  analysis |->
                      [has_primary_key |-> Len(categorized["primary_key"]) > 0,
                       foreign_key_count |-> Len(categorized["foreign_keys"]),
                       is_highly_relational |-> Len(categorized["foreign_keys"]) > 3]]

(***************************************************************************)
(* creatio_crm_crew/tools/documentation_tools.py                           *)
(***************************************************************************)

(* DataDictionaryTool._get_business_rules                                  *)
_get_business_rules(col) ==
    IF col.name = "Id" THEN <<"Auto-generated GUID primary key">>
    ELSE IF col.name = "Name" THEN <<"Required field for record identification">>
    ELSE IF col.name = "Email"
         THEN <<"Must be valid email format", "Should be unique for Contact records">>
    ELSE IF Contains(col.name, "Phone") THEN <<"Phone number format validation recommended">>
    ELSE IF col.name = "OwnerId"
         THEN <<"Must reference active system user", "Used for record ownership and security">>
    ELSE IF Contains(col.name, "Date")
         THEN <<"Date validation - cannot be historical for future-dated fields">>
    ELSE IF col.name = "Amount" \/ col.type = "decimal"
         THEN <<"Non-negative value constraint recommended">>
    ELSE << >>

(* DataDictionaryTool._get_sample_values (include_lookups is not read)     *)
_get_sample_values(col, include_lookups) ==
    IF col.type = "uniqueidentifier" THEN <<"00000000-0000-0000-0000-000000000001">>
    ELSE IF StartsWith(col.type, "nvarchar")
         THEN (IF Contains(col.name, "Email")
               THEN <<"john.doe@example.com", "jane.smith@company.org">>
               ELSE IF Contains(col.name, "Phone") THEN <<"+1-555-123-4567", "(555) 987-6543">>
               ELSE IF Contains(col.name, "Name") THEN <<"Acme Corporation", "John Doe">>
               ELSE <<"Sample text value">>)
    ELSE IF col.type = "datetime" THEN <<"2026-01-15T10:30:00Z">>
    ELSE IF col.type = "decimal" THEN <<"10000.00", "25000.50">>
    ELSE IF col.type = "int" THEN <<"100", "500">>
    ELSE IF col.type = "bit" THEN <<"1 (true)", "0 (false)">>
    ELSE << >>

(* DataDictionaryTool._identify_reference                                  *)
_identify_reference(col) ==
    LET col_name == col.name
        references ==
            [AccountId |-> [table |-> "Account", column |-> "Id"],
             ContactId |-> [table |-> "Contact", column |-> "Id"],
             OwnerId |-> [table |-> "Contact", column |-> "Id"],
             OpportunityId |-> [table |-> "Opportunity", column |-> "Id"],
             LeadId |-> [table |-> "Lead", column |-> "Id"],
             ActivityId |-> [table |-> "Activity", column |-> "Id"],
             TypeId |-> [table |-> Replace(col_name, "Id", "") \o "Type", column |-> "Id"],
             StatusId |-> [table |-> Replace(col_name, "Id", "") \o "Status", column |-> "Id"],
             CategoryId |-> [table |-> Replace(col_name, "Id", "") \o "Category", column |-> "Id"],
             StageId |-> [table |-> "OpportunityStage", column |-> "Id"],
             PriorityId |-> [table |-> "Priority", column |-> "Id"]]
    IN  Get(references, col_name, [table |-> "Unknown", column |-> "Id"])

(* DataDictionaryTool._recommend_indexes                                   *)
_recommend_indexes(columns) ==
    LET fks == SelectSeq(columns, LAMBDA col : col.is_foreign_key)
    IN  [i \in 1..Len(fks) |-> "IX_" \o fks[i].column_name]
            \o <<"IX_CreatedOn (for date range queries)",
                 "IX_OwnerId_CreatedOn (for user activity queries)">>

(* DataDictionaryTool._run, lines 203-218: the entry of one column.        *)
ColumnDetail(col, include_lookup_values) ==
    LET is_foreign_key == EndsWith(col.name, "Id") /\ col.name # "Id"
        col_detail == [column_name |-> col.name,
                       data_type |-> col.type,
                       description |-> col.description,
                       nullable |-> col.name # "Id",
                       is_primary_key |-> col.name = "Id",
                       is_foreign_key |-> is_foreign_key,
                       business_rules |-> _get_business_rules(col),
                       sample_values |-> _get_sample_values(col, include_lookup_values)]
    IN  IF is_foreign_key
        THEN col_detail @@ [references |-> _identify_reference(col)]
        ELSE col_detail

(* DataDictionaryTool._run                                                 *)
DataDictionaryTool_run(tbl, entity, include_lookup_values) ==
    LET entity_key == MatchKey(tbl, entity)
    IN  IF entity_key = None
        THEN [success |-> FALSE,
              error |-> "Entity '" \o entity \o "' not found",
              available_entities |-> Keys(tbl, SchemaKeyOrder)]
        ELSE LET info == tbl[entity_key]
                 columns_detail ==
                     [i \in 1..Len(info.key_columns) |->
                         ColumnDetail(info.key_columns[i], include_lookup_values)]
             IN  [success |-> TRUE,
                  entity |-> entity_key,
                  table_name |-> info.table_name,
                  description |-> info.description,
                  data_dictionary |->
                      [columns |-> columns_detail,
                       column_count |-> Len(columns_detail),
                       primary_key |-> "Id",
                       foreign_key_count |->
                           Len(SelectSeq(columns_detail, LAMBDA c : c.is_foreign_key)),
                       indexes_recommended |-> _recommend_indexes(columns_detail)],
                  audit_columns |->
                      [CreatedOn |-> "Record creation timestamp",
                       ModifiedOn |-> "Last modification timestamp",
                       CreatedById |-> "User who created the record",
                       ModifiedById |-> "User who last modified the record"],
                  notes |-> <<"All timestamps are stored in UTC",
                              "GUID columns use uniqueidentifier type",
                              "Lookup references point to Id columns in related tables">>]

(* sum(...) over a sequence of numbers                                     *)
RECURSIVE Sum(_)
Sum(numbers) == IF numbers = << >> THEN 0 ELSE Head(numbers) + Sum(Tail(numbers))

(* SchemaDocGeneratorTool._run, lines 52-56 (and ERDGeneratorTool._run,    *)
(* lines 349-353): the names of the entities argument.                     *)
ParseEntityList(tbl, entities) ==
    IF Lower(entities) = "all"
    THEN Keys(tbl, SchemaKeyOrder)
    ELSE LET pieces == Split(entities, ",")
         IN  [i \in 1..Len(pieces) |-> Strip(pieces[i])]

(* SchemaDocGeneratorTool._run, lines 58-64 (and ERDGeneratorTool._run,    *)
(* lines 355-361): the key of every name that matches one, in input order; *)
(* names that match no key are dropped.                                    *)
ValidEntities(tbl, entities) ==
    LET entity_list == ParseEntityList(tbl, entities)
        matched == [i \in 1..Len(entity_list) |-> MatchKey(tbl, entity_list[i])]
    IN  SelectSeq(matched, LAMBDA key : key # None)

(* The character U+0060 of the markdown templates (lines 106, 126, 134 and *)
(* 139).  A TLA+ string cannot hold it, so it is written as the tilde,     *)
(* which no template and no string of the schema table contains.           *)
GraveAccent == "~"

(* SchemaDocGeneratorTool._generate_markdown, lines 119-129 *)
MarkdownRelationships(info) ==
    LET rels == info.relationships
        Line(rel) ==
            LET via == Get(rel, "column", Get(rel, "via", ""))
            IN  "- **" \o rel.entity \o "** (" \o rel.type \o ")"
                    \o (IF via # "" THEN " via " \o GraveAccent \o via \o GraveAccent ELSE "")
                    \o "\n"
    IN  "### Relationships\n\n" \o Join([i \in 1..Len(rels) |-> Line(rels[i])], "") \o "\n"

(* SchemaDocGeneratorTool._generate_markdown, lines 132-140 *)
MarkdownExamples(entity, info) ==
    LET first == Take(info.key_columns, 5)
        cols == [i \in 1..Len(first) |-> first[i].name]
    IN  "### Example Queries\n\n"
            \o GraveAccent \o GraveAccent \o GraveAccent \o "sql\n"
            \o "-- Get all " \o entity \o " records\n"
            \o "SELECT TOP 100 * FROM [" \o info.table_name \o "]\n\n"
            \o "-- Get " \o entity \o " with specific columns\n"
            \o "SELECT " \o Join(cols, ", ") \o " FROM [" \o info.table_name \o "]\n"
            \o GraveAccent \o GraveAccent \o GraveAccent \o "\n\n"

(* SchemaDocGeneratorTool._generate_markdown, lines 101-142: one entity.   *)
MarkdownEntity(tbl, entity, include_rels, include_examples) ==
    LET info == tbl[entity]
        Row(col) == "| " \o col.name \o " | " \o col.type \o " | " \o col.description \o " |\n"
    IN  "## " \o entity \o "\n\n"
            \o "**Description:** " \o info.description \o "\n\n"
            \o "**Table Name:** " \o GraveAccent \o info.table_name \o GraveAccent \o "\n\n"
            \o "### Columns\n\n"
            \o "| Column | Type | Description |\n"
            \o "|--------|------|-------------|\n"
            \o Join([i \in 1..Len(info.key_columns) |-> Row(info.key_columns[i])], "")
            \o "\n"
            \o (IF include_rels /\ Get(info, "relationships", << >>) # << >>
                THEN MarkdownRelationships(info) ELSE "")
            \o (IF include_examples THEN MarkdownExamples(entity, info) ELSE "")
            \o "---\n\n"

(* SchemaDocGeneratorTool._generate_markdown *)
_generate_markdown(tbl, entities, include_rels, include_examples) ==
    "# Creatio CRM Schema Documentation\n\n"
        \o "*Documentation for " \o ToString(Len(entities)) \o " entities*\n\n"
        \o "---\n\n"
        \o Join([i \in 1..Len(entities) |->
                    MarkdownEntity(tbl, entities[i], include_rels, include_examples)], "")

(* SchemaDocGeneratorTool._generate_json: a dict keyed by entity, so an     *)
(* entity named twice has one entry.                                       *)
_generate_json(tbl, entities, include_rels) ==
    LET entity_doc(entity) ==
            LET info == tbl[entity]
                doc == [name |-> entity,
                        table_name |-> info.table_name,
                        description |-> info.description,
                        columns |-> info.key_columns]
            IN  IF include_rels
                THEN doc @@ [relationships |-> Get(info, "relationships", << >>)]
                ELSE doc
    IN  [entities |-> [entity \in Range(entities) |-> entity_doc(entity)]]

(* SchemaDocGeneratorTool._run *)
SchemaDocGeneratorTool_run(tbl, entities, format, include_relationships, include_examples) ==
    LET valid_entities == ValidEntities(tbl, entities)
    IN  IF valid_entities = << >>
        THEN [success |-> FALSE,
              error |-> "No valid entities found",
              available_entities |-> Keys(tbl, SchemaKeyOrder)]
        ELSE [success |-> TRUE,
              entities_documented |-> valid_entities,
              format |-> format,
              documentation |->
                  IF Lower(format) = "json"
                  THEN _generate_json(tbl, valid_entities, include_relationships)
                  ELSE _generate_markdown(tbl, valid_entities, include_relationships,
                                          include_examples),
              metadata |->
                  [entity_count |-> Len(valid_entities),
                   total_columns |->
                       Sum([i \in 1..Len(valid_entities) |->
                               Len(tbl[valid_entities[i]].key_columns)]),
                   total_relationships |->
                       Sum([i \in 1..Len(valid_entities) |->
                               Len(Get(tbl[valid_entities[i]], "relationships", << >>))])]]

(* ERDGeneratorTool._generate_mermaid, lines 399-408: the declaration of   *)
(* one entity.                                                             *)
MermaidEntity(tbl, entity, show_columns) ==
    LET info == tbl[entity]
        cols == Take(info.key_columns, 8)
        ColumnLine(col) ==
            LET col_type == Replace(Replace(Replace(col.type, "(", "_"), ")", ""), ",", "")
                pk == IF col.name = "Id" THEN "PK" ELSE ""
                fk == IF EndsWith(col.name, "Id") /\ col.name # "Id" THEN "FK" ELSE ""
                marker == IF pk # "" THEN pk ELSE fk
            IN  "        " \o col_type \o " " \o col.name \o " " \o marker
    IN  IF show_columns
        THEN <<"    " \o entity \o " {">>
                 \o [i \in 1..Len(cols) |-> ColumnLine(cols[i])]
                 \o <<"    }">>
        ELSE <<"    " \o entity>>

(* lines 412-415 and 459-462: every (entity, relationship) in loop order   *)
RelationshipsInOrder(tbl, entities) ==
    Flatten([i \in 1..Len(entities) |->
                LET rels == Get(tbl[entities[i]], "relationships", << >>)
                IN  [j \in 1..Len(rels) |-> [entity |-> entities[i], rel |-> rels[j]]]])

(* lines 425-433 (mermaid) and 472-480 (plantuml): the line of one         *)
(* relationship; a type other than the four adds no line.                  *)
RelationshipLine(style, entity, target, rel_type) ==
    LET indent == IF style = "mermaid" THEN "    " ELSE ""
        label(text) == IF style = "mermaid" THEN " : " \o text ELSE ""
    IN  CASE rel_type = "one-to-many" ->
                <<indent \o entity \o " ||--o{ " \o target \o label("has")>>
          [] rel_type = "many-to-one" ->
                <<indent \o entity \o " }o--|| " \o target \o label("belongs_to")>>
          [] rel_type = "many-to-many" ->
                <<indent \o entity \o " }o--o{ " \o target \o label("relates")>>
          [] rel_type = "one-to-one" ->
                <<indent \o entity \o " ||--|| " \o target \o label("is")>>
          [] OTHER -> << >>

(* lines 411-433 and 458-480: the relationship loop.  added_rels holds the *)
(* unordered pairs already met, tuple(sorted([entity, target])).           *)
RECURSIVE RelationshipLines(_, _, _, _)
RelationshipLines(style, pending, entities, added_rels) ==
    IF pending = << >> THEN << >>
    ELSE LET entity == Head(pending).entity
             rel == Head(pending).rel
             target == rel.entity
             rel_key == {entity, target}
         IN  IF target \notin Range(entities)
             THEN RelationshipLines(style, Tail(pending), entities, added_rels)
             ELSE IF rel_key \in added_rels
             THEN RelationshipLines(style, Tail(pending), entities, added_rels)
             ELSE RelationshipLine(style, entity, target, rel.type)
                      \o RelationshipLines(style, Tail(pending), entities,
                                           added_rels \cup {rel_key})

(* A variant of the mermaid generator that writes a line for every         *)
(* relationship of every entity, without the added_rels set and without    *)
(* the test that the target is one of the entities.                        *)
MermaidLines_every_relationship(tbl, entities, show_columns) ==
    LET pending == RelationshipsInOrder(tbl, entities)
    IN  <<"erDiagram">>
            \o Flatten([i \in 1..Len(entities) |->
                           MermaidEntity(tbl, entities[i], show_columns)])
            \o Flatten([i \in 1..Len(pending) |->
                           RelationshipLine("mermaid", pending[i].entity,
                                            pending[i].rel.entity, pending[i].rel.type)])

(* ERDGeneratorTool._generate_mermaid, lines 392-433: the list of lines    *)
MermaidLines(tbl, entities, show_columns) ==
    <<"erDiagram">>
        \o Flatten([i \in 1..Len(entities) |-> MermaidEntity(tbl, entities[i], show_columns)])
        \o RelationshipLines("mermaid", RelationshipsInOrder(tbl, entities), entities, {})

(* ERDGeneratorTool._generate_mermaid *)
_generate_mermaid(tbl, entities, show_columns) ==
    Join(MermaidLines(tbl, entities, show_columns), "\n")

(* ERDGeneratorTool._generate_plantuml, lines 445-453: one entity          *)
PlantumlEntity(tbl, entity, show_columns) ==
    LET info == tbl[entity]
        cols == SubSeq(info.key_columns, 2,
                       IF Len(info.key_columns) < 6 THEN Len(info.key_columns) ELSE 6)
        ColumnLine(col) ==
            "    " \o col.name \o " : " \o col.type
                \o (IF EndsWith(col.name, "Id") THEN " <<FK>>" ELSE "")
    IN  IF show_columns
        THEN <<"entity " \o entity \o " {", "    * Id : uniqueidentifier <<PK>>">>
                 \o [i \in 1..Len(cols) |-> ColumnLine(cols[i])]
                 \o <<"}">>
        ELSE <<"entity " \o entity>>

(* ERDGeneratorTool._generate_plantuml *)
_generate_plantuml(tbl, entities, show_columns) ==
    Join(<<"@startuml", "skinparam linetype ortho", "">>
             \o Flatten([i \in 1..Len(entities) |->
                            PlantumlEntity(tbl, entities[i], show_columns)])
             \o <<"">>
             \o RelationshipLines("plantuml", RelationshipsInOrder(tbl, entities), entities, {})
             \o <<"", "@enduml">>,
         "\n")

(* ERDGeneratorTool._guess_reference_table *)
_guess_reference_table(col_name) ==
    LET base_name == SliceTo(col_name, -2)
    IN  CASE base_name = "Owner" -> "Contact"
          [] base_name = "Stage" -> "OpportunityStage"
          [] OTHER -> base_name

(* ERDGeneratorTool._generate_dbml, lines 494-509: one table               *)
DbmlTable(tbl, entity) ==
    LET info == tbl[entity]
        ColumnLine(col) ==
            "    " \o col.name \o " " \o col.type
                \o (IF col.name = "Id" THEN " [pk]"
                    ELSE IF EndsWith(col.name, "Id")
                    THEN " [ref: > " \o _guess_reference_table(col.name) \o ".Id]"
                    ELSE "")
                \o " // " \o col.description
    IN  <<"Table " \o info.table_name \o " {">>
            \o [i \in 1..Len(info.key_columns) |-> ColumnLine(info.key_columns[i])]
            \o <<"}", "">>

(* ERDGeneratorTool._generate_dbml *)
_generate_dbml(tbl, entities) ==
    Join(<<"// Creatio CRM Schema - DBML Format", "">>
             \o Flatten([i \in 1..Len(entities) |-> DbmlTable(tbl, entities[i])]),
         "\n")

(* ERDGeneratorTool._get_usage_instructions *)
_get_usage_instructions(format) ==
    CASE Lower(format) = "mermaid" ->
            "To render this Mermaid diagram:\n"
                \o "1. Use Mermaid Live Editor: https://mermaid.live\n"
                \o "2. Paste in GitHub/GitLab markdown with "
                \o GraveAccent \o GraveAccent \o GraveAccent \o "mermaid code block\n"
                \o "3. Use VS Code with Mermaid extension"
      [] Lower(format) = "plantuml" ->
            "To render this PlantUML diagram:\n"
                \o "1. Use PlantUML Online: http://www.plantuml.com/plantuml\n"
                \o "2. Use VS Code with PlantUML extension\n"
                \o "3. Install PlantUML locally with Java runtime"
      [] Lower(format) = "dbml" ->
            "To render this DBML diagram:\n"
                \o "1. Use dbdiagram.io: https://dbdiagram.io\n"
                \o "2. Use DBML CLI tool for programmatic rendering\n"
                \o "3. Export to various formats including SQL"
      [] OTHER -> "Use appropriate visualization tool for the format"

(* ERDGeneratorTool._run *)
ERDGeneratorTool_run(tbl, entities, format, show_columns) ==
    LET valid_entities == ValidEntities(tbl, entities)
    IN  IF valid_entities = << >>
        THEN [success |-> FALSE,
              error |-> "No valid entities found",
              available_entities |-> Keys(tbl, SchemaKeyOrder)]
        ELSE [success |-> TRUE,
              entities_included |-> valid_entities,
              format |-> format,
              diagram |->
                  CASE Lower(format) = "mermaid" ->
                          _generate_mermaid(tbl, valid_entities, show_columns)
                    [] Lower(format) = "plantuml" ->
                          _generate_plantuml(tbl, valid_entities, show_columns)
                    [] Lower(format) = "dbml" -> _generate_dbml(tbl, valid_entities)
                    [] OTHER -> _generate_mermaid(tbl, valid_entities, show_columns),
              usage_instructions |-> _get_usage_instructions(format)]

(***************************************************************************)
(* creatio_crm_crew/tools/metrics_tools.py                                 *)
(***************************************************************************)

(* MetricCalculatorTool._get_date_filter                                   *)
_get_date_filter(time_period) ==
    LET filters ==
            [today |-> "CAST(CreatedOn AS DATE) = CAST(GETDATE() AS DATE)",
             last_week |-> "CreatedOn >= DATEADD(WEEK, -1, GETDATE())",
             last_month |-> "CreatedOn >= DATEADD(MONTH, -1, GETDATE())",
             last_quarter |-> "CreatedOn >= DATEADD(QUARTER, -1, GETDATE())",
             ytd |-> "YEAR(CreatedOn) = YEAR(GETDATE())",
             last_year |-> "CreatedOn >= DATEADD(YEAR, -1, GETDATE())"]
    IN  Get(filters, time_period, filters["last_month"])

(* MetricCalculatorTool._generate_calculation_query (group_by is not read) *)
_generate_calculation_query(kpi_info, time_period, group_by) ==
    LET primary_entity == kpi_info.entities[1]
        date_filter == _get_date_filter(time_period)
        name_lower == Lower(kpi_info.name)
        unit == kpi_info.unit
    IN  IF unit = "percentage" /\ Contains(name_lower, "rate") /\ Contains(name_lower, "win")
        THEN "\nSELECT \n    CAST(SUM(CASE WHEN s.Name = 'Closed won' THEN 1 ELSE 0 END) AS FLOAT) /\n"
                 \o "    NULLIF(COUNT(*), 0) * 100 AS WinRate\nFROM [Opportunity] o\n"
                 \o "JOIN [OpportunityStage] s ON o.StageId = s.Id\nWHERE s.IsFinal = 1\n    AND "
                 \o date_filter \o "\n"
        ELSE IF unit = "percentage" /\ Contains(name_lower, "rate")
                    /\ Contains(name_lower, "conversion")
        THEN "\nSELECT \n    CAST(SUM(CASE WHEN QualifiedContactId IS NOT NULL THEN 1 ELSE 0 END) AS FLOAT) /\n"
                 \o "    NULLIF(COUNT(*), 0) * 100 AS ConversionRate\nFROM [Lead]\nWHERE "
                 \o date_filter \o "\n"
        ELSE IF unit = "currency" /\ Contains(name_lower, "pipeline")
        THEN "\nSELECT SUM(o.Amount) AS PipelineValue\nFROM [Opportunity] o\n"
                 \o "JOIN [OpportunityStage] s ON o.StageId = s.Id\nWHERE s.IsFinal = 0\n"
        ELSE IF unit = "currency" /\ Contains(name_lower, "average")
        THEN "\nSELECT AVG(o.Amount) AS AverageDealSize\nFROM [Opportunity] o\n"
                 \o "JOIN [OpportunityStage] s ON o.StageId = s.Id\nWHERE s.Name = 'Closed won'\n    AND "
                 \o date_filter \o "\n"
        ELSE IF unit = "days" \/ unit = "hours"
        THEN "\nSELECT AVG(DATEDIFF(" \o SubSeq(unit, 1, Len(unit) - 1)
                 \o ", CreatedOn, CloseDate)) AS " \o Replace(kpi_info.name, " ", "")
                 \o "\nFROM [" \o primary_entity \o "]\nWHERE " \o date_filter \o "\n"
        ELSE "\nSELECT COUNT(*) AS " \o Replace(kpi_info.name, " ", "")
                 \o "\nFROM [" \o primary_entity \o "]\nWHERE " \o date_filter \o "\n"

(* A variant of MetricCalculatorTool._run that looks the category up and   *)
(* never checks the metric name against the category's metrics.            *)
MetricCalculatorTool_run_metric_unchecked(lib, metric_id, time_period, group_by) ==
    LET parts == Split(metric_id, ".")
    IN  IF Len(parts) = 2 /\ parts[1] \in DOMAIN lib
        THEN [success |-> TRUE,
              metric |-> [id |-> metric_id],
              calculation |-> [time_period |-> time_period, group_by |-> group_by]]
        ELSE [success |-> FALSE,
              error |-> "Unknown category",
              available_categories |-> Keys(lib, KpiCategoryOrder)]

(* MetricCalculatorTool._run                                               *)
MetricCalculatorTool_run(lib, metric_id, time_period, group_by) ==
    LET parts == Split(metric_id, ".")
    IN  IF Len(parts) # 2
        THEN [success |-> FALSE,
              error |-> "Invalid metric_id format. Use 'category.metric_name' (e.g., 'sales.win_rate')",
              available_categories |-> Keys(lib, KpiCategoryOrder)]
        ELSE LET category == parts[1]
                 metric_name == parts[2]
             IN  IF category \notin DOMAIN lib
                 THEN [success |-> FALSE,
                       error |-> "Unknown category: " \o category,
                       available_categories |-> Keys(lib, KpiCategoryOrder)]
                 ELSE IF metric_name \notin DOMAIN lib[category]
                 THEN [success |-> FALSE,
                       error |-> "Unknown metric: " \o metric_name,
                       available_metrics |-> Keys(lib[category], KpiMetricOrder[category])]
                 ELSE LET kpi_info == lib[category][metric_name]
                      IN  [success |-> TRUE,
                           metric |-> [id |-> metric_id,
                                       name |-> kpi_info.name,
                                       description |-> kpi_info.description,
                                       unit |-> kpi_info.unit],
                           calculation |->
                               [formula |-> kpi_info.formula,
                                sql_query |-> _generate_calculation_query(kpi_info, time_period, group_by),
                                time_period |-> time_period,
                                date_filter |-> _get_date_filter(time_period),
                                group_by |-> group_by],
                           entities_required |-> kpi_info.entities,
                           notes |-> <<"Recommended calculation frequency: " \o kpi_info.frequency,
                                       "Ensure appropriate indexes exist for date columns",
                                       "Consider caching results for dashboard performance">>]

(* A variant of the search filter of KPILibraryTool._run that looks at the *)
(* name only.                                                              *)
KpiMatches_name_only(kpi_info, search_term) ==
    IF Truthy(search_term)
    THEN Contains(Lower(kpi_info.name), Lower(search_term))
    ELSE TRUE

(* KPILibraryTool._run, lines 609-614: whether a KPI passes the search     *)
(* filter.                                                                 *)
KpiMatches(kpi_info, search_term) ==
    IF Truthy(search_term)
    THEN LET term_lower == Lower(search_term)
         IN  ~(/\ ~Contains(Lower(kpi_info.name), term_lower)
               /\ ~Contains(Lower(kpi_info.description), term_lower))
    ELSE TRUE

(* KPILibraryTool._run, lines 604-623: the entries of one category, none   *)
(* for a category that is not in the library.                              *)
KpisOfCategory(lib, cat, search_term) ==
    IF cat \notin DOMAIN lib THEN << >>
    ELSE LET kpi_ids == SelectSeq(Keys(lib[cat], KpiMetricOrder[cat]),
                                  LAMBDA kpi_id : KpiMatches(lib[cat][kpi_id], search_term))
         IN  [i \in 1..Len(kpi_ids) |->
                 LET kpi_info == lib[cat][kpi_ids[i]]
                 IN  [id |-> cat \o "." \o kpi_ids[i],
                      category |-> cat,
                      name |-> kpi_info.name,
                      description |-> kpi_info.description,
                      unit |-> kpi_info.unit,
                      frequency |-> kpi_info.frequency]]

(* KPILibraryTool._run *)
KPILibraryTool_run(lib, category, search_term) ==
    LET categories_to_search ==
            IF Truthy(category) THEN <<category>> ELSE Keys(lib, KpiCategoryOrder)
        kpis == Flatten([i \in 1..Len(categories_to_search) |->
                            KpisOfCategory(lib, categories_to_search[i], search_term)])
    IN  [success |-> TRUE,
         filter |-> [category |-> category, search_term |-> search_term],
         kpis |-> kpis,
         summary |-> [total_kpis_found |-> Len(kpis),
                      categories_searched |-> categories_to_search,
                      available_categories |-> Keys(lib, KpiCategoryOrder)]]

(* DashboardDesignerTool._run, lines 652-688: the KPI ids chosen from the   *)
(* words of the purpose; the executive branch replaces what came before.  *)
RecommendedKpis(dashboard_purpose) ==
    LET purpose_lower == Lower(dashboard_purpose)
        sales == IF Contains(purpose_lower, "sales") \/ Contains(purpose_lower, "revenue")
                 THEN <<"sales.pipeline_value", "sales.win_rate", "sales.average_deal_size",
                        "sales.sales_cycle_length", "sales.revenue_by_rep">>
                 ELSE << >>
        marketing == IF Contains(purpose_lower, "marketing") \/ Contains(purpose_lower, "lead")
                     THEN <<"marketing.lead_volume", "marketing.lead_conversion_rate",
                            "marketing.lead_source_effectiveness",
                            "marketing.marketing_qualified_leads">>
                     ELSE << >>
        service == IF \/ Contains(purpose_lower, "service")
                      \/ Contains(purpose_lower, "support")
                      \/ Contains(purpose_lower, "case")
                   THEN <<"customer_service.case_volume",
                          "customer_service.average_resolution_time",
                          "customer_service.customer_satisfaction",
                          "customer_service.sla_compliance">>
                   ELSE << >>
    IN  IF Contains(purpose_lower, "executive") \/ Contains(purpose_lower, "overview")
        THEN <<"sales.pipeline_value", "sales.win_rate", "marketing.lead_conversion_rate",
               "customer_service.customer_satisfaction", "customer_health.revenue_retention">>
        ELSE sales \o marketing \o service

(* DashboardDesignerTool._run, lines 691-716                               *)
layout_config ==
    [executive |-> [style |-> "high-level summary", max_widgets |-> 6,
                    widget_types |-> <<"scorecard", "trend_line", "gauge">>,
                    refresh_frequency |-> "daily"],
     manager |-> [style |-> "operational overview", max_widgets |-> 10,
                  widget_types |-> <<"scorecard", "bar_chart", "table", "trend_line">>,
                  refresh_frequency |-> "hourly"],
     analyst |-> [style |-> "detailed analysis", max_widgets |-> 15,
                  widget_types |-> <<"table", "pivot", "scatter", "heatmap", "drill-down">>,
                  refresh_frequency |-> "real-time"],
     rep |-> [style |-> "personal performance", max_widgets |-> 8,
              widget_types |-> <<"scorecard", "progress_bar", "activity_feed", "leaderboard">>,
              refresh_frequency |-> "real-time"]]

(* CRM_KPI_LIBRARY.get(category, {}).get(metric, {}) for the two parts of  *)
(* a split id; the empty record stands for the empty dict.                 *)
KpiInfo(lib, parts) ==
    LET category == parts[1]
        metric == parts[Len(parts)]
    IN  IF category \in DOMAIN lib /\ metric \in DOMAIN lib[category]
        THEN lib[category][metric]
        ELSE << >>

(* DashboardDesignerTool._generate_widget_layout, lines 757-784: the       *)
(* widget of the id at 0-based index i.                                    *)
Widget(lib, kpi_id, i) ==
    LET parts == Split(kpi_id, ".")
        metric == parts[2]
        kpi_info == KpiInfo(lib, parts)
        unit == Get(kpi_info, "unit", None)
        widget_type ==
            IF unit = "percentage" THEN "gauge"
            ELSE IF unit = "currency" THEN "scorecard"
            ELSE IF unit = "count" THEN (IF i % 2 = 0 THEN "bar_chart" ELSE "scorecard")
            ELSE "trend_line"
    IN  [position |-> i + 1,
         kpi_id |-> kpi_id,
         kpi_name |-> Get(kpi_info, "name", metric),
         widget_type |-> widget_type,
         size |-> IF widget_type \in {"bar_chart", "trend_line"} THEN "medium" ELSE "small",
         show_trend |-> unit \in {"percentage", "currency", "count"}]

(* DashboardDesignerTool._generate_widget_layout: ids that do not split    *)
(* into two parts or that the library does not hold are passed over, and  *)
(* the position stays the index of the id in the list.                    *)
_generate_widget_layout(lib, kpis) ==
    LET kept == SelectSeq([k \in 1..Len(kpis) |-> k],
                          LAMBDA k : LET parts == Split(kpis[k], ".")
                                     IN  /\ Len(parts) = 2
                                         /\ KpiInfo(lib, parts) # << >>)
    IN  [j \in 1..Len(kept) |-> Widget(lib, kpis[kept[j]], kept[j] - 1)]

(* DashboardDesignerTool._run, lines 740-745: the entities of the first    *)
(* eight ids.  The code builds the list from a set of strings, whose      *)
(* iteration order differs from run to run; the model keeps the set.      *)
EntitiesNeeded(lib, kpis) ==
    UNION {LET parts == Split(kpis[k], ".")
           IN  IF Contains(kpis[k], ".")
               THEN Range(Get(KpiInfo(lib, parts), "entities", << >>))
               ELSE {} : k \in 1..Len(kpis)}

(* DashboardDesignerTool._run *)
DashboardDesignerTool_run(lib, dashboard_purpose, audience, key_questions) ==
    LET recommended_kpis == RecommendedKpis(dashboard_purpose)
        audience_config == Get(layout_config, Lower(audience), layout_config["manager"])
    IN  [success |-> TRUE,
         dashboard_purpose |-> dashboard_purpose,
         target_audience |-> audience,
         key_questions |-> key_questions,
         design |-> [layout_style |-> audience_config.style,
                     recommended_widget_count |-> audience_config.max_widgets,
                     widget_types |-> audience_config.widget_types,
                     refresh_frequency |-> audience_config.refresh_frequency],
         recommended_kpis |-> Take(recommended_kpis, 8),
         widget_recommendations |-> _generate_widget_layout(lib, Take(recommended_kpis, 6)),
         implementation_notes |->
             <<"Use Creatio's built-in dashboard designer for native integration",
               "Consider external BI tools (Power BI, Tableau) for advanced analytics",
               "Implement caching for complex calculations",
               "Set up scheduled data refresh for consistency">>,
         data_requirements |->
             [entities_needed |-> EntitiesNeeded(lib, Take(recommended_kpis, 8)),
              estimated_query_complexity |->
                  IF Len(recommended_kpis) > 5 THEN "medium" ELSE "low"]]

(***************************************************************************)
(* creatio_crm_crew/tools/query_tools.py                                   *)
(***************************************************************************)

(* A helper either returns a value or lets an exception escape.            *)
Ok(v) == [ok |-> TRUE, value |-> v]
Raise(exception) == [ok |-> FALSE, raised |-> exception]

(* s[0].lower(): IndexError on the empty string.                           *)
FirstCharLower(s) == IF s = "" THEN Raise("IndexError") ELSE Ok(Lower(CharAt(s, 1)))

(* SQLQueryBuilderTool._build_select, lines 119-126                        *)
default_cols ==
    [Contact |-> <<"c.Id", "c.Name", "c.Email", "c.Phone", "c.AccountId">>,
     Account |-> <<"a.Id", "a.Name", "a.Phone", "a.Web", "a.IndustryId">>,
     Opportunity |-> <<"o.Id", "o.Title", "o.Amount", "o.StageId", "o.CloseDate">>,
     Lead |-> <<"l.Id", "l.LeadName", "l.Email", "l.QualifyStatusId">>,
     Activity |-> <<"act.Id", "act.Title", "act.TypeId", "act.StartDate">>,
     Case |-> <<"cs.Id", "cs.Number", "cs.Subject", "cs.StatusId">>]

(* SQLQueryBuilderTool._build_select.  The default of default_cols.get is  *)
(* an argument: primary[0] is evaluated whether or not primary is a key.   *)
_build_select(primary, entities, aggregations) ==
    LET agg_funcs == << <<"count", "COUNT(" \o primary \o ".Id) AS RecordCount">>,
                        <<"sum", "SUM(" \o primary \o ".Amount) AS TotalAmount">>,
                        <<"avg", "AVG(" \o primary \o ".Amount) AS AvgAmount">> >>
        agg_lower == Lower(aggregations)
        hits == SelectSeq(agg_funcs, LAMBDA kv : Contains(agg_lower, kv[1]))
        agg_cols == [i \in 1..Len(hits) |-> hits[i][2]]
        initial == FirstCharLower(primary)
    IN  IF Truthy(aggregations) /\ agg_cols # << >>
        THEN Ok("SELECT\n    " \o Join(agg_cols, ", "))
        ELSE IF ~initial.ok THEN initial
        ELSE Ok("SELECT\n    "
                  \o Join(Get(default_cols, primary,
                              <<initial.value \o ".Id", initial.value \o ".Name">>),
                          ",\n    "))

(* SQLQueryBuilderTool._build_from, lines 133-134                          *)
aliases ==
    [Contact |-> "c", Account |-> "a", Opportunity |-> "o", Lead |-> "l",
     Activity |-> "act", Case |-> "cs", Product |-> "p", Order |-> "ord"]

(* SQLQueryBuilderTool._build_from, lines 141-150: (primary, joined) ->    *)
(* the JOIN line.                                                          *)
join_templates ==
    << <<"Contact", "Account", "LEFT JOIN [Account] a ON c.AccountId = a.Id">>,
       <<"Account", "Contact", "LEFT JOIN [Contact] c ON c.AccountId = a.Id">>,
       <<"Opportunity", "Account", "LEFT JOIN [Account] a ON o.AccountId = a.Id">>,
       <<"Activity", "Contact", "LEFT JOIN [Contact] c ON act.ContactId = c.Id">>,
       <<"Activity", "Account", "LEFT JOIN [Account] a ON act.AccountId = a.Id">>,
       <<"Case", "Contact", "LEFT JOIN [Contact] c ON cs.ContactId = c.Id">>,
       <<"Case", "Account", "LEFT JOIN [Account] a ON cs.AccountId = a.Id">>,
       <<"Lead", "Contact", "LEFT JOIN [Contact] c ON l.QualifiedContactId = c.Id">> >>

HasTemplate(a, b) == \E i \in 1..Len(join_templates) :
                        join_templates[i][1] = a /\ join_templates[i][2] = b

Template(a, b) ==
    join_templates[CHOOSE i \in 1..Len(join_templates) :
                       join_templates[i][1] = a /\ join_templates[i][2] = b][3]

(* SQLQueryBuilderTool._build_from, lines 152-162: the line one secondary  *)
(* entity adds.  In the last branch the alias is computed and not used.    *)
JoinLine(primary, entity) ==
    IF HasTemplate(primary, entity) THEN Ok("\n" \o Template(primary, entity))
    ELSE IF HasTemplate(entity, primary) THEN Ok("\n" \o Template(entity, primary))
    ELSE IF ~FirstCharLower(entity).ok THEN FirstCharLower(entity)
    ELSE Ok("\n-- Add JOIN for [" \o entity \o "] based on your relationship")

(* SQLQueryBuilderTool._build_from.  aliases.get(primary, primary[0]...)   *)
(* evaluates primary[0] as an argument.                                    *)
_build_from(entities) ==
    LET primary == entities[1]
        initial == FirstCharLower(primary)
        lines == [i \in 1..(Len(entities) - 1) |-> JoinLine(primary, entities[i + 1])]
        failed == {i \in 1..Len(lines) : ~lines[i].ok}
    IN  IF ~initial.ok THEN initial
        ELSE IF failed # {} THEN lines[CHOOSE i \in failed : \A j \in failed : i <= j]
        ELSE Ok("FROM [" \o primary \o "] " \o Get(aliases, primary, initial.value)
                  \o Join([i \in 1..Len(lines) |-> lines[i].value], ""))

(* SQLQueryBuilderTool._build_where                                        *)
_build_where(filters) ==
    LET filter_lower == Lower(filters)
        patterns ==
            << <<"this month", "CreatedOn >= DATEADD(MONTH, DATEDIFF(MONTH, 0, GETDATE()), 0)">>,
               <<"this quarter", "CreatedOn >= DATEADD(QUARTER, DATEDIFF(QUARTER, 0, GETDATE()), 0)">>,
               <<"this year", "YEAR(CreatedOn) = YEAR(GETDATE())">>,
               <<"active", "IsActive = 1">>,
               <<"closed", "StatusId IN (SELECT Id FROM [OpportunityStatus] WHERE IsFinal = 1)">>,
               <<"won", "StageId = (SELECT Id FROM [OpportunityStage] WHERE Name = 'Closed won')">> >>
        hits == SelectSeq(patterns, LAMBDA kv : Contains(filter_lower, kv[1]))
        conditions == [i \in 1..Len(hits) |-> hits[i][2]]
    IN  IF conditions # << >>
        THEN "WHERE\n    " \o Join(conditions, "\n    AND ")
        ELSE "WHERE -- Add conditions based on: " \o filters

(* A variant of _build_group that returns the grouping text without the    *)
(* GROUP BY keyword.                                                       *)
_build_group_without_keyword(grouping) == grouping

(* SQLQueryBuilderTool._build_group                                        *)
_build_group(grouping) == "GROUP BY " \o grouping

(* SQLQueryBuilderTool._build_order                                        *)
_build_order(ordering) ==
    IF Contains(Lower(ordering), "newest") \/ Contains(Lower(ordering), "recent")
    THEN "ORDER BY CreatedOn DESC"
    ELSE IF Contains(Lower(ordering), "oldest") THEN "ORDER BY CreatedOn ASC"
    ELSE IF Contains(Lower(ordering), "amount") THEN "ORDER BY Amount DESC"
    ELSE "ORDER BY " \o ordering

(* SQLQueryBuilderTool._explain_query                                      *)
_explain_query(primary, entities, filters, aggregations) ==
    "This query retrieves data from " \o primary
        \o (IF Len(entities) > 1 THEN " joined with " \o Join(Tail(entities), ", ") ELSE "")
        \o (IF Truthy(filters) THEN " filtered by: " \o filters ELSE "")
        \o (IF Truthy(aggregations) THEN " with aggregations: " \o aggregations ELSE "")

(* SQLQueryBuilderTool._run                                                *)
SQLQueryBuilderTool_run(objective, entities, filters, aggregations, grouping, ordering) ==
    LET pieces == Split(entities, ",")
        entity_list == [i \in 1..Len(pieces) |-> Strip(pieces[i])]
        primary_entity == entity_list[1]
        select_clause == _build_select(primary_entity, entity_list, aggregations)
        from_clause == _build_from(entity_list)
        where_clause == IF Truthy(filters) THEN _build_where(filters) ELSE ""
        group_clause == IF Truthy(grouping) THEN _build_group(grouping) ELSE ""
        order_clause == IF Truthy(ordering) THEN _build_order(ordering) ELSE ""
    IN  IF ~select_clause.ok THEN [raised |-> select_clause.raised]
        ELSE IF ~from_clause.ok THEN [raised |-> from_clause.raised]
        ELSE LET query_parts ==
                     <<select_clause.value, from_clause.value>>
                         \o (IF where_clause # "" THEN <<where_clause>> ELSE << >>)
                         \o (IF group_clause # "" THEN <<group_clause>> ELSE << >>)
                         \o (IF order_clause # "" THEN <<order_clause>> ELSE << >>)
             IN  [success |-> TRUE,
                  objective |-> objective,
                  query |-> Join(query_parts, "\n") \o ";",
                  entities_used |-> entity_list,
                  query_type |-> "SELECT",
                  has_aggregation |-> aggregations # None,
                  has_grouping |-> grouping # None,
                  explanation |-> _explain_query(primary_entity, entity_list, filters, aggregations),
                  performance_notes |->
                      <<"Consider adding indexes on filter columns",
                        "Use date range filters to limit result set",
                        "Add TOP clause for testing with large datasets">>]

(* [x.strip() for x in text.split(",")] joined by "," again (lines 241-242 *)
(* and 251-253)                                                            *)
StrippedList(text) ==
    LET pieces == Split(text, ",")
    IN  Join([i \in 1..Len(pieces) |-> Strip(pieces[i])], ",")

(* ODataQueryBuilderTool._convert_to_odata_filter *)
_convert_to_odata_filter(natural_filter, entity) ==
    LET filter_lower == Lower(natural_filter)
        conditions ==
            (IF Contains(filter_lower, "today")
             THEN <<"CreatedOn ge cast(now(), Edm.DateTimeOffset)">> ELSE << >>)
            \o (IF Contains(filter_lower, "this month")
                THEN <<"month(CreatedOn) eq month(now()) and year(CreatedOn) eq year(now())">>
                ELSE << >>)
            \o (IF Contains(filter_lower, "active") THEN <<"IsActive eq true">> ELSE << >>)
            \o (IF Contains(filter_lower, "open")
                THEN IF Lower(entity) = "opportunity" THEN <<"Stage/IsFinal eq false">>
                     ELSE IF Lower(entity) = "case" THEN <<"Status/IsFinal eq false">>
                     ELSE << >>
                ELSE << >>)
    IN  IF conditions # << >>
        THEN Join(conditions, " and ")
        ELSE "/* Add filter for: " \o natural_filter \o " */"

(* ODataQueryBuilderTool._generate_curl *)
_generate_curl(url) ==
    "curl -X GET \"{CREATIO_URL}" \o url \o "\" \\\n"
        \o "  -H \"Accept: application/json\" \\\n"
        \o "  -H \"Content-Type: application/json\" \\\n"
        \o "  -H \"BPMCSRF: {csrf_token}\" \\\n"
        \o "  --cookie \"BPMCSRF={csrf_token};.ASPXAUTH={auth_cookie}\""

(* A variant of ODataQueryBuilderTool._run that appends $top only for a    *)
(* truthy top, like the three optional parameters.                         *)
ODataQueryBuilderTool_run_top_if_truthy(entity, select_fields, filter_expression, expand_relations, top) ==
    LET base_url == "/0/odata/" \o entity \o "Collection"
        query_params ==
            (IF Truthy(select_fields)
             THEN <<"$select=" \o StrippedList(select_fields)>> ELSE << >>)
            \o (IF Truthy(filter_expression)
                THEN <<"$filter=" \o _convert_to_odata_filter(filter_expression, entity)>>
                ELSE << >>)
            \o (IF Truthy(expand_relations)
                THEN <<"$expand=" \o StrippedList(expand_relations)>> ELSE << >>)
            \o (IF top # 0 THEN <<"$top=" \o ToString(top)>> ELSE << >>)
        full_url == IF query_params # << >>
                    THEN base_url \o "?" \o Join(query_params, "&")
                    ELSE base_url
    IN  [success |-> TRUE,
         entity |-> entity,
         odata_url |-> full_url,
         query_parts |-> [base |-> base_url,
                          select |-> select_fields,
                          filter |-> filter_expression,
                          expand |-> expand_relations,
                          top |-> top],
         curl_example |-> _generate_curl(full_url),
         usage_notes |-> <<"Add authentication headers (BPMCSRF token)",
                           "Use $skip for pagination",
                           "Add $count=true to get total count">>]

(* ODataQueryBuilderTool._run *)
ODataQueryBuilderTool_run(entity, select_fields, filter_expression, expand_relations, top) ==
    LET base_url == "/0/odata/" \o entity \o "Collection"
        query_params ==
            (IF Truthy(select_fields)
             THEN <<"$select=" \o StrippedList(select_fields)>> ELSE << >>)
            \o (IF Truthy(filter_expression)
                THEN <<"$filter=" \o _convert_to_odata_filter(filter_expression, entity)>>
                ELSE << >>)
            \o (IF Truthy(expand_relations)
                THEN <<"$expand=" \o StrippedList(expand_relations)>> ELSE << >>)
            \o <<"$top=" \o ToString(top)>>
        full_url == IF query_params # << >>
                    THEN base_url \o "?" \o Join(query_params, "&")
                    ELSE base_url
    IN  [success |-> TRUE,
         entity |-> entity,
         odata_url |-> full_url,
         query_parts |-> [base |-> base_url,
                          select |-> select_fields,
                          filter |-> filter_expression,
                          expand |-> expand_relations,
                          top |-> top],
         curl_example |-> _generate_curl(full_url),
         usage_notes |-> <<"Add authentication headers (BPMCSRF token)",
                           "Use $skip for pagination",
                           "Add $count=true to get total count">>]

(* str.count for a one-character sub: how often the character occurs      *)
CountChar(text, char) == Cardinality({i \in 1..Len(text) : SubSeq(text, i, i) = char})

(* str.capitalize: the first character upper case, the rest lower case     *)
Capitalize(s) == IF s = "" THEN "" ELSE UpperChar(CharAt(s, 1)) \o Lower(SubSeq(s, 2, Len(s)))

(* QueryValidatorTool._run, lines 455-464 *)
known_entities ==
    <<"contact", "account", "opportunity", "lead", "activity",
      "case", "product", "order", "sysadminunit", "syslookup">>

EntitiesReferenced(query) ==
    LET query_lower == Lower(query)
        found == SelectSeq(known_entities,
                           LAMBDA entity : \/ Contains(query_lower, entity)
                                           \/ Contains(query_lower, "[" \o entity \o "]"))
    IN  [i \in 1..Len(found) |-> Capitalize(found[i])]

(* QueryValidatorTool._run, lines 466-493: the errors of a sql query, in   *)
(* the order the checks append them; each append also sets is_valid to     *)
(* False.                                                                  *)
common_typos ==
    << <<"slect", "SELECT">>, <<"frmo", "FROM">>, <<"wehre", "WHERE">>,
       <<"gruop", "GROUP">>, <<"ordre", "ORDER">> >>

SqlErrors(query) ==
    LET query_lower == Lower(query)
        typos == SelectSeq(common_typos, LAMBDA pair : Contains(query_lower, pair[1]))
    IN  (IF ~Contains(query_lower, "select")
         THEN <<"Missing required keyword: " \o Upper("select")>> ELSE << >>)
        \o (IF CountChar(query, "[") # CountChar(query, "]")
            THEN <<"Unbalanced square brackets">> ELSE << >>)
        \o (IF CountChar(query, "(") # CountChar(query, ")")
            THEN <<"Unbalanced parentheses">> ELSE << >>)
        \o [i \in 1..Len(typos) |->
               "Possible typo: '" \o typos[i][1] \o "' should be '" \o typos[i][2] \o "'"]

(* QueryValidatorTool._run, lines 495-500 *)
SqlWarnings(query) ==
    LET query_lower == Lower(query)
    IN  (IF \/ Contains(query_lower, "delete")
            \/ Contains(query_lower, "drop")
            \/ Contains(query_lower, "truncate")
         THEN <<"Query contains destructive operation - use with caution!">> ELSE << >>)
        \o (IF Contains(query_lower, "update") /\ ~Contains(query_lower, "where")
            THEN <<"UPDATE without WHERE will affect all rows!">> ELSE << >>)

(* QueryValidatorTool._run, lines 502-512 *)
ODataWarnings(query) ==
    LET query_lower == Lower(query)
        params == <<"$select", "$filter", "$expand", "$orderby", "$top", "$skip">>
        unformatted == SelectSeq(params,
                                 LAMBDA param : /\ Contains(query_lower, param)
                                                /\ ~Contains(query_lower, param \o "=")
                                                /\ ~Contains(query_lower, param \o " ="))
    IN  (IF ~Contains(query, "/odata/") /\ ~Contains(query, "Collection")
         THEN <<"OData URL should include /odata/ path and Collection suffix">> ELSE << >>)
        \o [i \in 1..Len(unformatted) |->
               unformatted[i] \o " should be followed by = and value"]

(* A variant of the summary of lines 514-519 that takes is_valid from the  *)
(* absence of warnings and swaps the two counts.                           *)
ValidationSummary_from_warnings(is_valid, errors, warnings, entities_referenced) ==
    [is_valid |-> warnings = << >>,
     error_count |-> Len(warnings),
     warning_count |-> Len(errors),
     entities_found |-> Len(entities_referenced)]

(* QueryValidatorTool._run, lines 514-519 *)
ValidationSummary(is_valid, errors, warnings, entities_referenced) ==
    [is_valid |-> is_valid,
     error_count |-> Len(errors),
     warning_count |-> Len(warnings),
     entities_found |-> Len(entities_referenced)]

(* QueryValidatorTool._run *)
QueryValidatorTool_run(query, query_type) ==
    LET errors == IF query_type = "sql" THEN SqlErrors(query) ELSE << >>
        warnings == IF query_type = "sql" THEN SqlWarnings(query)
                    ELSE IF query_type = "odata" THEN ODataWarnings(query)
                    ELSE << >>
        is_valid == errors = << >>
        entities_referenced == EntitiesReferenced(query)
    IN  [success |-> TRUE,
         query |-> query,
         query_type |-> query_type,
         is_valid |-> is_valid,
         errors |-> errors,
         warnings |-> warnings,
         entities_referenced |-> entities_referenced,
         columns_referenced |-> << >>,
         validation_summary |->
             ValidationSummary(is_valid, errors, warnings, entities_referenced)]

---------------------------------------------------------------------------
(***************************************************************************)
(* devlifecycle_crew/tools/ticket_tools.py                                 *)
(***************************************************************************)

(* str(list) of a list of strings, as the f-string of the error formats it *)
ListRepr(items) == "[" \o Join([i \in 1..Len(items) |-> "'" \o items[i] \o "'"], ", ") \o "]"

valid_fields == <<"status", "priority", "assignee", "labels", "description">>

(* A variant of TicketUpdaterTool._run that compares the field as given,    *)
(* without lowercasing it.                                                 *)
TicketUpdaterTool_run_case_sensitive(ticket_id, field, value) ==
    IF field \notin Range(valid_fields)
    THEN [success |-> FALSE,
          error |-> "Invalid field '" \o field \o "'. Valid fields: " \o ListRepr(valid_fields)]
    ELSE [success |-> TRUE,
          ticket_id |-> ticket_id,
          field_updated |-> field,
          new_value |-> value,
          message |-> "Successfully updated " \o field \o " to '" \o value
                          \o "' for ticket " \o ticket_id]

(* TicketUpdaterTool._run *)
TicketUpdaterTool_run(ticket_id, field, value) ==
    IF Lower(field) \notin Range(valid_fields)
    THEN [success |-> FALSE,
          error |-> "Invalid field '" \o field \o "'. Valid fields: " \o ListRepr(valid_fields)]
    ELSE [success |-> TRUE,
          ticket_id |-> ticket_id,
          field_updated |-> field,
          new_value |-> value,
          message |-> "Successfully updated " \o field \o " to '" \o value
                          \o "' for ticket " \o ticket_id]

(* TicketCreatorTool._run; uuid_hex is the hex form of the uuid4 the call  *)
(* draws.                                                                  *)
TicketCreatorTool_run(uuid_hex, title, description, ticket_type, priority, labels) ==
    LET ticket_id == "TICKET-" \o Upper(SubSeq(uuid_hex, 1, 8))
        pieces == Split(labels, ",")
        label_list == SelectSeq([i \in 1..Len(pieces) |-> Strip(pieces[i])], LAMBDA l : l # "")
    IN  [success |-> TRUE,
         ticket_id |-> ticket_id,
         title |-> title,
         type |-> ticket_type,
         priority |-> priority,
         labels |-> label_list,
         status |-> "open",
         message |-> "Successfully created " \o ticket_type \o " ticket: " \o ticket_id]

(* TicketSearchTool._run, lines 105-120 *)
mock_results(query) ==
    <<[ticket_id |-> "TICKET-001",
       title |-> "Sample ticket matching: " \o query,
       status |-> "open",
       priority |-> "medium",
       type |-> "task"],
      [ticket_id |-> "TICKET-002",
       title |-> "Related to: " \o query,
       status |-> "in_progress",
       priority |-> "high",
       type |-> "feature"]>>

(* TicketSearchTool._run *)
TicketSearchTool_run(query, status, limit) ==
    [success |-> TRUE,
     query |-> query,
     status_filter |-> status,
     results_count |-> Len(mock_results(query)),
     tickets |-> SliceTo(mock_results(query), limit)]

---------------------------------------------------------------------------
(***************************************************************************)
(* creatio_crm_crew/crew.py: CreatioCRMCrew.ask_question                   *)
(***************************************************************************)

schema_words == <<"schema", "table", "column", "entity", "relationship", "structure">>
query_words == <<"query", "sql", "odata", "select", "join", "extract">>
metrics_words == <<"kpi", "metric", "measure", "dashboard", "report", "analytics">>

(* any(word in text for word in words) *)
AnyWordIn(words, text) == \E i \in 1..Len(words) : Contains(text, words[i])

(* The task a factory builds: the factory, the agent it was given and the  *)
(* question its description embeds.                                        *)
Task(factory, agent, question) ==
    [factory |-> factory, agent |-> agent, question |-> question]

(* A variant of ask_question that tests the metrics keywords before the    *)
(* schema and query keywords.                                              *)
ask_question_metrics_first(question) ==
    LET question_lower == Lower(question)
        agent == IF AnyWordIn(metrics_words, question_lower) THEN "metrics_expert"
                 ELSE IF AnyWordIn(schema_words, question_lower) THEN "schema_analyst"
                 ELSE IF AnyWordIn(query_words, question_lower) THEN "query_builder"
                 ELSE "schema_analyst"
        factory == CASE agent = "metrics_expert" -> "MetricsTasks.answer_metrics_question"
                     [] agent = "query_builder" -> "QueryTasks.build_query_from_question"
                     [] OTHER -> "SchemaAnalysisTasks.answer_schema_question"
    IN  [crew |-> [agents |-> <<agent>>,
                   tasks |-> <<Task(factory, agent, question)>>,
                   process |-> "sequential"]]

(* The Crew ask_question assembles and kicks off. *)
ask_question(question) ==
    LET question_lower == Lower(question)
        routed ==
            IF AnyWordIn(schema_words, question_lower)
            THEN [task |-> Task("SchemaAnalysisTasks.answer_schema_question",
                                "schema_analyst", question),
                  agent |-> "schema_analyst"]
            ELSE IF AnyWordIn(query_words, question_lower)
            THEN [task |-> Task("QueryTasks.build_query_from_question",
                                "query_builder", question),
                  agent |-> "query_builder"]
            ELSE IF AnyWordIn(metrics_words, question_lower)
            THEN [task |-> Task("MetricsTasks.answer_metrics_question",
                                "metrics_expert", question),
                  agent |-> "metrics_expert"]
            ELSE [task |-> Task("SchemaAnalysisTasks.answer_schema_question",
                                "schema_analyst", question),
                  agent |-> "schema_analyst"]
    IN  [crew |-> [agents |-> <<routed.agent>>,
                   tasks |-> <<routed.task>>,
                   process |-> "sequential"]]

---------------------------------------------------------------------------
(***************************************************************************)
(* devlifecycle_crew/tools/sdlc_tools.py                                   *)
(***************************************************************************)

(* int(capacity * fraction) for fraction = percent / 100: the product      *)
(* truncated toward zero.  The float product truncates to the same integer *)
(* as the exact one for every capacity from -300 to 2000 and the two       *)
(* fractions 0.85 and 0.15 of lines 60-61.                                 *)
IntOfPercent(capacity, percent) ==
    IF capacity >= 0
    THEN (capacity * percent) \div 100
    ELSE -(((-capacity) * percent) \div 100)

(* SprintPlannerTool._run, line 54 *)
ItemList(items) ==
    LET pieces == Split(items, ",")
    IN  SelectSeq([i \in 1..Len(pieces) |-> Strip(pieces[i])], LAMBDA i : i # "")

(* A variant of SprintPlannerTool._run that defers from the seventh item   *)
(* on, so that the sixth item is in neither list.                          *)
SprintPlannerTool_run_sixth_item_lost(sprint_name, capacity, items) ==
    LET item_list == ItemList(items)
    IN  [success |-> TRUE,
         sprint |-> sprint_name,
         capacity |-> capacity,
         planned_points |-> IntOfPercent(capacity, 85),
         buffer_points |-> IntOfPercent(capacity, 15),
         items_considered |-> Len(item_list),
         recommended_items |->
             IF Len(item_list) > 5 THEN SubSeq(item_list, 1, 5) ELSE item_list,
         deferred_items |->
             IF Len(item_list) > 5 THEN SubSeq(item_list, 7, Len(item_list)) ELSE << >>,
         sprint_goal |-> "Complete core functionality for " \o sprint_name,
         risks |-> <<"External dependency on API team", "New team member ramping up">>,
         recommendations |-> <<"Start with highest-priority items",
                               "Reserve time for code review",
                               "Plan mid-sprint check-in">>]

(* SprintPlannerTool._run *)
SprintPlannerTool_run(sprint_name, capacity, items) ==
    LET item_list == ItemList(items)
    IN  [success |-> TRUE,
         sprint |-> sprint_name,
         capacity |-> capacity,
         planned_points |-> IntOfPercent(capacity, 85),
         buffer_points |-> IntOfPercent(capacity, 15),
         items_considered |-> Len(item_list),
         recommended_items |->
             IF Len(item_list) > 5 THEN SubSeq(item_list, 1, 5) ELSE item_list,
         deferred_items |->
             IF Len(item_list) > 5 THEN SubSeq(item_list, 6, Len(item_list)) ELSE << >>,
         sprint_goal |-> "Complete core functionality for " \o sprint_name,
         risks |-> <<"External dependency on API team", "New team member ramping up">>,
         recommendations |-> <<"Start with highest-priority items",
                               "Reserve time for code review",
                               "Plan mid-sprint check-in">>]

---------------------------------------------------------------------------
(***************************************************************************)
(* devlifecycle_crew/crew.py: DevLifecycleCrew.full_ticket_to_sprint_workflow *)
(***************************************************************************)

(* The task a factory of devlifecycle_crew/tasks builds: the factory, the  *)
(* agent it was given and the other arguments, which its description       *)
(* embeds.                                                                 *)
WorkflowTask(factory, agent, inputs) ==
    [factory |-> factory, agent |-> agent, inputs |-> inputs]

(* A variant of full_ticket_to_sprint_workflow that plans the sprint       *)
(* before the requirements are validated and reviewed, and analyses the    *)
(* first ticket only.                                                      *)
full_ticket_to_sprint_workflow_plan_early(tickets, team_capacity, sprint_goal) ==
    LET combined_tickets == Join(tickets, "\n---\n")
        first_ticket == IF tickets = << >> THEN "" ELSE tickets[1]
    IN  [agents |-> <<"intake_agent", "requirements_agent", "quality_agent", "planning_agent">>,
         tasks |->
             <<WorkflowTask("IntakeTasks.batch_process_tickets", "intake_agent", <<tickets>>),
               WorkflowTask("RequirementsTasks.analyze_requirements", "requirements_agent",
                            <<first_ticket>>),
               WorkflowTask("RequirementsTasks.create_user_stories", "requirements_agent",
                            <<combined_tickets>>),
               WorkflowTask("PlanningTasks.plan_sprint", "planning_agent",
                            <<combined_tickets, team_capacity, sprint_goal>>),
               WorkflowTask("RequirementsTasks.validate_requirements", "requirements_agent",
                            <<combined_tickets>>),
               WorkflowTask("QualityTasks.review_requirements_testability", "quality_agent",
                            <<combined_tickets>>)>>,
         process |-> "sequential"]

(* The Crew full_ticket_to_sprint_workflow assembles, lines 399-457.       *)
full_ticket_to_sprint_workflow(tickets, team_capacity, sprint_goal) ==
    LET combined_tickets == Join(tickets, "\n---\n")
    IN  [agents |-> <<"intake_agent", "requirements_agent", "quality_agent", "planning_agent">>,
         tasks |->
             <<WorkflowTask("IntakeTasks.batch_process_tickets", "intake_agent", <<tickets>>),
               WorkflowTask("RequirementsTasks.analyze_requirements", "requirements_agent",
                            <<combined_tickets>>),
               WorkflowTask("RequirementsTasks.create_user_stories", "requirements_agent",
                            <<combined_tickets>>),
               WorkflowTask("RequirementsTasks.validate_requirements", "requirements_agent",
                            <<combined_tickets>>),
               WorkflowTask("QualityTasks.review_requirements_testability", "quality_agent",
                            <<combined_tickets>>),
               WorkflowTask("PlanningTasks.plan_sprint", "planning_agent",
                            <<combined_tickets, team_capacity, sprint_goal>>)>>,
         process |-> "sequential"]

---------------------------------------------------------------------------
(***************************************************************************)
(* run_custom_workflow of the two crews.  A workflow_config is a record    *)
(* with any of the fields agents, tasks and process; a task entry is a     *)
(* record with any of type, agent and the fields its factory reads.  The   *)
(* outcome is the Crew that is kicked off, [crew |-> ...], the string the  *)
(* method returns without a Crew, [returned |-> ...], or the exception     *)
(* that leaves it, [raised |-> ...].                                       *)
(***************************************************************************)

(* creatio_crm_crew/crew.py, lines 771-776: the agent each name stands for *)
CreatioAgentMap ==
    [schema_analyst |-> "schema_analyst",
     data_architect |-> "data_architect",
     metrics_expert |-> "metrics_expert",
     query_builder |-> "query_builder"]

(* creatio_crm_crew/crew.py, lines 793-822: the task of one entry, or no   *)
(* task for a type that is not one of the four.                            *)
CreatioCustomTask(task_config) ==
    LET task_type == Get(task_config, "type", None)
        agent_name == Get(task_config, "agent", "schema_analyst")
        agent == Get(CreatioAgentMap, agent_name, "schema_analyst")
    IN  IF task_type = "explore_entity"
        THEN <<WorkflowTask("SchemaAnalysisTasks.explore_entity", agent,
                            <<Get(task_config, "entity", "Contact")>>)>>
        ELSE IF task_type = "build_query"
        THEN <<WorkflowTask("QueryTasks.build_query_from_question", agent,
                            <<Get(task_config, "question", "")>>)>>
        ELSE IF task_type = "define_kpi"
        THEN <<WorkflowTask("MetricsTasks.define_kpi", agent,
                            <<Get(task_config, "goal", ""), Get(task_config, "context", "")>>)>>
        ELSE IF task_type = "generate_documentation"
        THEN <<WorkflowTask("DocumentationTasks.generate_entity_documentation", agent,
                            <<Get(task_config, "entities", "Contact")>>)>>
        ELSE << >>

(* The process a workflow_config selects, lines 784-788 (and 544-548).     *)
CustomProcess(workflow_config) ==
    IF Get(workflow_config, "process", None) = "hierarchical"
    THEN "hierarchical"
    ELSE "sequential"

(* CreatioCRMCrew.run_custom_workflow *)
CreatioCRMCrew_run_custom_workflow(workflow_config) ==
    LET names == Get(workflow_config, "agents", <<"schema_analyst">>)
        known == SelectSeq(names, LAMBDA name : name \in DOMAIN CreatioAgentMap)
        agents == [i \in 1..Len(known) |-> CreatioAgentMap[known[i]]]
        configs == Get(workflow_config, "tasks", << >>)
        tasks == Flatten([i \in 1..Len(configs) |-> CreatioCustomTask(configs[i])])
    IN  IF tasks = << >>
        THEN [returned |-> "No valid tasks configured"]
        ELSE [crew |-> [agents |-> agents,
                        tasks |-> tasks,
                        process |-> CustomProcess(workflow_config)]]

(* devlifecycle_crew/crew.py, lines 531-537 *)
DevLifecycleAgentMap ==
    [intake |-> "intake_agent",
     requirements |-> "requirements_agent",
     sdlc_manager |-> "sdlc_manager_agent",
     quality |-> "quality_agent",
     planning |-> "planning_agent"]

(* devlifecycle_crew/crew.py, lines 553-588: the task of one entry whose   *)
(* agent name is a key of the map.                                         *)
DevLifecycleCustomTask(task_config) ==
    LET task_type == Get(task_config, "type", None)
        agent == DevLifecycleAgentMap[Get(task_config, "agent", "intake")]
        data == <<Get(task_config, "data", "")>>
    IN  IF task_type = "triage"
        THEN <<WorkflowTask("IntakeTasks.triage_ticket", agent, data)>>
        ELSE IF task_type = "analyze_requirements"
        THEN <<WorkflowTask("RequirementsTasks.analyze_requirements", agent, data)>>
        ELSE IF task_type = "create_stories"
        THEN <<WorkflowTask("RequirementsTasks.create_user_stories", agent, data)>>
        ELSE IF task_type = "plan_sprint"
        THEN <<WorkflowTask("PlanningTasks.plan_sprint", agent,
                            <<Get(task_config, "backlog", ""), Get(task_config, "capacity", ""),
                              Get(task_config, "goal", "")>>)>>
        ELSE IF task_type = "status_report"
        THEN <<WorkflowTask("SDLCTasks.generate_status_report", agent, data)>>
        ELSE << >>

(* DevLifecycleCrew.run_custom_workflow: agent_map[name] (line 540) and    *)
(* agent_map[agent_name] (line 555) raise KeyError for a name that is no   *)
(* key of the map, the second for every entry, whatever its type.          *)
DevLifecycleCrew_run_custom_workflow(workflow_config) ==
    LET names == Get(workflow_config, "agents", <<"intake">>)
        configs == Get(workflow_config, "tasks", << >>)
        tasks == Flatten([i \in 1..Len(configs) |-> DevLifecycleCustomTask(configs[i])])
    IN  IF \E i \in 1..Len(names) : names[i] \notin DOMAIN DevLifecycleAgentMap
        THEN [raised |-> "KeyError"]
        ELSE IF \E i \in 1..Len(configs) :
                    Get(configs[i], "agent", "intake") \notin DOMAIN DevLifecycleAgentMap
        THEN [raised |-> "KeyError"]
        ELSE IF tasks = << >>
        THEN [returned |-> "No valid tasks configured"]
        ELSE [crew |-> [agents |-> [i \in 1..Len(names) |-> DevLifecycleAgentMap[names[i]]],
                        tasks |-> tasks,
                        process |-> CustomProcess(workflow_config)]]

---------------------------------------------------------------------------
(***************************************************************************)
(* devlifecycle_crew/cli.py: interactive                                   *)
(***************************************************************************)

(* line 239, user_input.strip().split(maxsplit=1): the first word and,     *)
(* when something follows it, the rest without the whitespace in between.  *)
RECURSIVE FirstWord(_)
FirstWord(s) ==
    IF s = "" \/ IsSpace(CharAt(s, 1)) THEN ""
    ELSE CharAt(s, 1) \o FirstWord(SubSeq(s, 2, Len(s)))

SplitOnce(user_input) ==
    LET stripped == Strip(user_input)
        first == FirstWord(stripped)
        rest == LStrip(SubSeq(stripped, Len(first) + 1, Len(stripped)))
    IN  IF stripped = "" THEN << >>
        ELSE IF rest = "" THEN <<first>>
        ELSE <<first, rest>>

(* What one pass of the loop leaves behind: where the loop stands, the     *)
(* line it read, the crew methods it has called for that line and the      *)
(* last thing it printed (None when it printed nothing).                   *)
Pass(at, user_input, invoked, printed) ==
    [at |-> at, user_input |-> user_input, invoked |-> invoked, printed |-> printed]

(* lines 236-260 with the text check of lines 250-252 left out: a command  *)
(* without text reaches the crew with an empty text.                       *)
Dispatch_without_text_check(user_input) ==
    LET parts == SplitOnce(user_input)
        command == Lower(parts[1])
        text == IF Len(parts) < 2 THEN "" ELSE parts[2]
        Call(method) == Pass("crew", user_input, <<[method |-> method, text |-> text]>>, None)
    IN  IF Strip(user_input) = "" THEN Pass("prompt", user_input, << >>, None)
        ELSE IF command = "exit" \/ command = "quit"
        THEN Pass("ended", user_input, << >>, "[yellow]Goodbye![/yellow]")
        ELSE IF command = "help"
        THEN Pass("prompt", user_input, << >>, "Commands: triage, analyze, status, help, exit")
        ELSE IF command = "triage" THEN Call("process_ticket")
        ELSE IF command = "analyze" THEN Call("analyze_requirements")
        ELSE IF command = "status" THEN Call("generate_status_report")
        ELSE Pass("prompt", user_input, << >>, "[red]Unknown command: " \o command \o "[/red]")

(* lines 236-263: one line of input, up to the call of a crew method or    *)
(* to the continue or break that ends the pass.                            *)
Dispatch(user_input) ==
    LET parts == SplitOnce(user_input)
        command == Lower(parts[1])
        text == parts[2]
        Call(method) == Pass("crew", user_input, <<[method |-> method, text |-> text]>>, None)
    IN  IF Strip(user_input) = "" THEN Pass("prompt", user_input, << >>, None)
        ELSE IF command = "exit" \/ command = "quit"
        THEN Pass("ended", user_input, << >>, "[yellow]Goodbye![/yellow]")
        ELSE IF command = "help"
        THEN Pass("prompt", user_input, << >>, "Commands: triage, analyze, status, help, exit")
        ELSE IF Len(parts) < 2
        THEN Pass("prompt", user_input, << >>, "[red]Please provide input text[/red]")
        ELSE IF command = "triage" THEN Call("process_ticket")
        ELSE IF command = "analyze" THEN Call("analyze_requirements")
        ELSE IF command = "status" THEN Call("generate_status_report")
        ELSE Pass("prompt", user_input, << >>, "[red]Unknown command: " \o command \o "[/red]")

(* lines 214-223: the panel printed when the session starts.               *)
InteractivePanel ==
    "[bold blue]DevLifecycle Crew - Interactive Mode[/bold blue]\n\n"
        \o "Available commands:\n"
        \o "  triage <text>     - Triage a ticket\n"
        \o "  analyze <text>    - Analyze requirements\n"
        \o "  status <text>     - Generate status report\n"
        \o "  help              - Show this help\n"
        \o "  exit              - Exit interactive mode"

(* lines 264-267: what the two except clauses print.                       *)
InterruptNotice == "\n[yellow]Use 'exit' to quit[/yellow]"
ErrorNotice(e) == "[red]Error: " \o e \o "[/red]"

---------------------------------------------------------------------------
(***************************************************************************)
(* What a call leaves in the module-level tables.  The tools read the      *)
(* tables and build their results from new lists and dicts.                *)
(***************************************************************************)

(* A variant of ColumnAnalyzerTool._run that filters the stored key_columns *)
(* list in place instead of rebinding `columns` to new lists.              *)
ColumnAnalyzerTool_stored_in_place(tbl, entity_name, column_filter, include_system_columns) ==
    LET entity_key == MatchKey(tbl, entity_name)
    IN  IF entity_key = None
        THEN tbl
        ELSE [tbl EXCEPT ![entity_key].key_columns =
                  AnalyzedColumns(tbl, entity_key, column_filter, include_system_columns)]

(* ColumnAnalyzerTool._run, lines 397-406: `columns` is rebound to the     *)
(* new lists the two comprehensions build; the stored key_columns list is  *)
(* only read.                                                              *)
ColumnAnalyzerTool_stored(tbl, entity_name, column_filter, include_system_columns) == tbl

(* EntityRelationshipTool._run, lines 329-363: `relationships` is rebound  *)
(* to a filtered copy and the paths are appended to a list of the result.  *)
EntityRelationshipTool_stored(tbl, source_entity, target_entity, relationship_depth) == tbl

SchemaAfter(c, tbl) ==
    CASE c.tool = "ColumnAnalyzerTool" ->
            ColumnAnalyzerTool_stored(tbl, c.args.entity_name, c.args.column_filter,
                                      c.args.include_system_columns)
      [] c.tool = "EntityRelationshipTool" ->
            EntityRelationshipTool_stored(tbl, c.args.source_entity, c.args.target_entity,
                                          c.args.relationship_depth)
      [] OTHER -> tbl

KpiAfter(c, lib) == lib

(* uuid.uuid4().hex: the values a call of TicketCreatorTool can draw.      *)
UuidHexInputs ==
    {"3f2a9c1e5b7d4e8fa1b2c3d4e5f60718",
     "3f2a9c1e0000400080000000deadbeef",
     "c0ffee11223344558899aabbccddeeff"}

(* The results a call can return: one for every call but TicketCreatorTool, *)
(* which has one for every uuid it can draw.                               *)
ToolRun(c, tbl, lib) ==
    CASE c.tool = "SchemaExplorerTool" ->
            {SchemaExplorerTool_run(tbl, c.args.entity_name, c.args.include_relationships)}
      [] c.tool = "EntityRelationshipTool" ->
            {EntityRelationshipTool_run(tbl, c.args.source_entity, c.args.target_entity,
                                        c.args.relationship_depth)}
      [] c.tool = "ColumnAnalyzerTool" ->
            {ColumnAnalyzerTool_run(tbl, c.args.entity_name, c.args.column_filter,
                                    c.args.include_system_columns)}
      [] c.tool = "DataDictionaryTool" ->
            {DataDictionaryTool_run(tbl, c.args.entity, c.args.include_lookup_values)}
      [] c.tool = "MetricCalculatorTool" ->
            {MetricCalculatorTool_run(lib, c.args.metric_id, c.args.time_period, c.args.group_by)}
      [] c.tool = "SQLQueryBuilderTool" ->
            {SQLQueryBuilderTool_run(c.args.objective, c.args.entities, c.args.filters,
                                     c.args.aggregations, c.args.grouping, c.args.ordering)}
      [] c.tool = "TicketUpdaterTool" ->
            {TicketUpdaterTool_run(c.args.ticket_id, c.args.field, c.args.value)}
      [] c.tool = "TicketCreatorTool" ->
            {TicketCreatorTool_run(uuid_hex, c.args.title, c.args.description,
                                   c.args.ticket_type, c.args.priority, c.args.labels)
                 : uuid_hex \in UuidHexInputs}
      [] c.tool = "CreatioCRMCrew.run_custom_workflow" ->
            {CreatioCRMCrew_run_custom_workflow(c.args.workflow_config)}
      [] c.tool = "DevLifecycleCrew.run_custom_workflow" ->
            {DevLifecycleCrew_run_custom_workflow(c.args.workflow_config)}
      [] c.tool = "DashboardDesignerTool" ->
            {DashboardDesignerTool_run(lib, c.args.dashboard_purpose, c.args.audience,
                                       c.args.key_questions)}
      [] c.tool = "KPILibraryTool" ->
            {KPILibraryTool_run(lib, c.args.category, c.args.search_term)}
      [] c.tool = "QueryValidatorTool" ->
            {QueryValidatorTool_run(c.args.query, c.args.query_type)}
      [] c.tool = "ODataQueryBuilderTool" ->
            {ODataQueryBuilderTool_run(c.args.entity, c.args.select_fields,
                                       c.args.filter_expression, c.args.expand_relations,
                                       c.args.top)}
      [] c.tool = "SprintPlannerTool" ->
            {SprintPlannerTool_run(c.args.sprint_name, c.args.capacity, c.args.items)}
      [] c.tool = "SchemaDocGeneratorTool" ->
            {SchemaDocGeneratorTool_run(tbl, c.args.entities, c.args.format,
                                        c.args.include_relationships,
                                        c.args.include_examples)}
      [] c.tool = "ERDGeneratorTool" ->
            {ERDGeneratorTool_run(tbl, c.args.entities, c.args.format, c.args.show_columns)}
      [] c.tool = "TicketSearchTool" ->
            {TicketSearchTool_run(c.args.query, c.args.status, c.args.limit)}

---------------------------------------------------------------------------
(***************************************************************************)
(* Inputs                                                                  *)
(***************************************************************************)

(* Entity names: every key as stored, lowercased and uppercased, a mixed   *)
(* case, names with surrounding blanks, unknown names and the empty name.  *)
EntityNameInputs ==
    Range(SchemaKeyOrder)
        \cup {Lower(k) : k \in Range(SchemaKeyOrder)}
        \cup {Upper(k) : k \in Range(SchemaKeyOrder)}
        \cup {"cONTACT", " Contact ", "Lead ", "UnknownEntity", "Contacts", ""}

TargetInputs == {None, "", "Account", "contact", "ACTIVITY", "Nope"}

DepthInputs == {0, 1, 2, 3}

ColumnFilterInputs == {None, "", "id", "Email", "zzz"}

(* Metric ids: every stored category.metric, ids that differ from a stored *)
(* one only in case, ids with an unknown category or metric, and ids       *)
(* without exactly one dot.                                                *)
StoredMetricIds ==
    {cat \o "." \o m : <<cat, m>> \in
        UNION {{<<c, n>> : n \in DOMAIN CRM_KPI_LIBRARY[c]} : c \in DOMAIN CRM_KPI_LIBRARY}}

MetricIdInputs ==
    StoredMetricIds
        \cup {"Sales.Win_Rate", "SALES.win_rate", "sales.WIN_RATE", "Marketing.lead_volume",
              "sales.nope", "invalid.metric", "marketing.win_rate", "nope.win_rate",
              "sales", "", ".", "sales.", ".win_rate", "sales.win_rate.x"}

TimePeriodInputs == {"last_month", "ytd", "bogus"}

GroupByInputs == {None, "OwnerId"}

(* The entities argument: comma-separated lists of at most MaxListLen      *)
(* elements, among them known and unknown entities, an entity with a       *)
(* leading blank, the empty element and the blank element.                 *)
MaxListLen == 2

EntityElements == {"Contact", "Account", " Opportunity", "Foo", "", " "}

EntitiesInputs ==
    {Join(elements, ",") : elements \in UNION {[1..n -> EntityElements] : n \in 1..MaxListLen}}

FiltersInputs == {None, "", "closed won this year"}

AggregationsInputs == {None, "count"}

GroupingInputs == {None, "", "OwnerId"}

OrderingInputs == {None, "", "Newest first"}

TicketIdInputs == {"TICKET-001", ""}

FieldInputs ==
    Range(valid_fields)
        \cup {"Status", "PRIORITY", "Description", " status", "owner", "title", "statuses", ""}

ValueInputs == {"done", ""}

TitleInputs == {"Fix login", ""}

TicketTypeInputs == {"task", "bug"}

LabelsInputs == {"", "backend", "a,b", " a , ,b "}

(* Questions: one keyword of a family, keywords of several families,       *)
(* keywords inside longer words, upper case, and no keyword at all.        *)
QuestionInputs ==
    {"What is the schema of Contact?", "Show the TABLE list", "select a column",
     "Write SQL for leads", "report sql", "Which KPI matters?", "hello", "",
     "restructured", "adjoining rooms", "measure the structure", "dashboard query",
     "OData metric", "How are we doing?", "Analytics", "extract", "Entity report",
     "reporting", "join the metrics table"}

QueryInputs == {"login bug", ""}

StatusInputs == {"all", "open", "in_progress", "closed", "Open"}

LimitInputs == {-1, 0, 1, 2, 10}

(* DocumentationInput.entities and ERDInput.entities: comma-separated       *)
(* names, or the word all.                                                 *)
DocEntitiesInputs ==
    {"Contact", "contact, Nope", "Nope", "all", "Nope, Lead ,CASE", ""}

DocFormatInputs == {"markdown", "json", "html"}

ErdEntitiesInputs ==
    {"Contact, Nope", "Nope", "all", "Opportunity,Contact", "Contact,Opportunity",
     "Contact,Contact", "SysAdminUnit", "account, Case,contact"}

ErdFormatInputs == {"mermaid", "plantuml", "dbml", "svg"}

(* SprintPlanInput: capacities and comma-separated item ids, with fewer    *)
(* than, exactly and more than five items, blanks and padding.             *)
CapacityInputs == {0, 20, 33, -7}

ItemsInputs ==
    {"", "A-1", "A-1, A-2,,A-3", "a,b,c,d,e", "a,b,c,d,e,f", " a, b,,c,d,e,f ,g, ", " , "}

(* ODataQueryInput: the optional strings absent (None), empty and given.   *)
ODataEntityInputs == {"Contact", "opportunity"}

SelectFieldsInputs == {None, "", "Id, Name ,Email"}

FilterExpressionInputs == {None, "", "open today", "R&D accounts"}

ExpandRelationsInputs == {None, "", "Account , Owner"}

TopInputs == {100, 0, -1}

(* QueryValidateInput: sql and odata texts with and without the things    *)
(* the validator looks for, and query types it knows and does not know.    *)
ValidatorQueryInputs ==
    {"SELECT c.Id FROM [Contact] c WHERE (c.Name = 'x')",
     "slect Id frmo [Contact",
     "DELETE FROM [Order] WHERE (Id = 1",
     "UPDATE Account SET Name = 'x'",
     "Select COUNT(Id)) FROM Lead gruop by OwnerId",
     "/0/odata/ContactCollection?$select=Id&$top 5",
     "Contacts?$filter",
     ""}

QueryTypeInputs == {"sql", "odata", "SQL", "graphql"}

(* KPILibraryInput: category and search term absent (None), empty, given  *)
(* in the library's spelling, in another letter case, and unknown.         *)
CategoryInputs == {None, "", "sales", "Sales", "customer_health", "finance"}

SearchTermInputs == {None, "", "rate", "RATE", "Opportunities", "zzz"}

(* Ticket descriptions and the ticket lists of a workflow call, from the   *)
(* empty list up to MaxListLen tickets.                                    *)
TicketTexts == {"Login fails on Safari", "Add CSV export"}

TicketsInputs == UNION {[1..n -> TicketTexts] : n \in 0..MaxListLen}

DashboardPurposeInputs ==
    {"Sales performance", "marketing", "Lead and case", "Executive overview",
     "sales and marketing support", "team morale", "REVENUE"}

AudienceInputs == {"executive", "Analyst", "board"}

KeyQuestionsInputs == {"How is the quarter going?"}

UserInputLines ==
    {"", "   ", "exit", "QUIT", "  Exit now", "exits", "quit\tplease", "Exit\fnow", "help", "Help me",
     "triage", "triage login fails on submit", "TRIAGE  x", "analyze add export",
     "status sprint 4", "Status", "deploy now", "deploy", "triage exit"}

(* What a crew method or kickoff() hands back, and the messages of the     *)
(* exceptions a crew method or console.input may raise.                    *)
CrewOutputs == {"## Report"}

(* Classes of the exceptions kickoff() may raise.                          *)
KickoffExceptions == {"RuntimeError", "ValueError"}

CrewErrorMessages == {"OPENAI_API_KEY is not set"}

InputErrorMessages == {"EOF when reading a line"}

(* Agent names and task types of both crews, and strings neither knows.    *)
CustomAgentNames == {"query_builder", "planning", "nobody"}

CustomTaskTypes == {"explore_entity", "triage", "deploy"}

CustomTaskConfigs ==
    {[type |-> type] : type \in CustomTaskTypes}
        \cup {[type |-> type, agent |-> agent] :
                  type \in CustomTaskTypes, agent \in CustomAgentNames}
        \cup {[agent |-> "intake"],
              [type |-> "explore_entity", entity |-> "Account"],
              [type |-> "plan_sprint", backlog |-> "a, b", capacity |-> "40", goal |-> "ship"]}

WorkflowConfigInputs ==
    {<< >>}
        \cup {[tasks |-> tasks] : tasks \in UNION {[1..n -> CustomTaskConfigs] : n \in 0..2}}
        \cup {[agents |-> <<agent>>, tasks |-> <<[type |-> type]>>, process |-> process] :
                  agent \in CustomAgentNames, type \in CustomTaskTypes,
                  process \in {"sequential", "hierarchical", "parallel"}}
        \cup {[agents |-> << >>], [agents |-> <<"nobody", "intake">>, tasks |-> << >>]}

---------------------------------------------------------------------------
NoCall == [tool |-> "none"]
NoResult == [none |-> TRUE]
NoKickoff == [none |-> TRUE]
NoSession == [none |-> TRUE]

(* A variant of Init whose schema table has no Case entity.                *)
Init_without_Case ==
    /\ schema = [key \in DOMAIN CREATIO_SCHEMA_KNOWLEDGE \ {"Case"} |->
                     CREATIO_SCHEMA_KNOWLEDGE[key]]
    /\ kpi = CRM_KPI_LIBRARY
    /\ pc = "idle"
    /\ call = [tool |-> "none"]
    /\ result = [none |-> TRUE]
    /\ earlier = [none |-> TRUE]
    /\ kickoff = [none |-> TRUE]
    /\ session = [none |-> TRUE]

Init ==
    /\ schema = CREATIO_SCHEMA_KNOWLEDGE
    /\ kpi = CRM_KPI_LIBRARY
    /\ pc = "idle"
    /\ call = NoCall
    /\ result = NoResult
    /\ earlier = NoResult
    /\ kickoff = NoKickoff
    /\ session = NoSession

(* The caller invokes a tool and gets its result.                          *)
Invoke(c) ==
    /\ pc = "idle"
    /\ pc' = "returned"
    /\ call' = c
    /\ result' \in ToolRun(c, schema, kpi)
    /\ schema' = SchemaAfter(c, schema)
    /\ kpi' = KpiAfter(c, kpi)
    /\ earlier' = NoResult
    /\ UNCHANGED <<kickoff, session>>

(* The caller repeats the call it just made, with identical arguments.     *)
Reinvoke ==
    /\ pc = "returned"
    /\ earlier = NoResult
    /\ kickoff = NoKickoff
    /\ result' \in ToolRun(call, schema, kpi)
    /\ schema' = SchemaAfter(call, schema)
    /\ kpi' = KpiAfter(call, kpi)
    /\ earlier' = result
    /\ UNCHANGED <<pc, call, kickoff, session>>

(* The caller drops the result and is ready for another call.              *)
Return ==
    /\ pc = "returned"
    /\ pc' = "idle"
    /\ call' = NoCall
    /\ result' = NoResult
    /\ earlier' = NoResult
    /\ kickoff' = NoKickoff
    /\ UNCHANGED <<schema, kpi, session>>

(* Crew(...) followed by crew.kickoff() (devlifecycle_crew/crew.py lines   *)
(* 447-459 and 593-600, creatio_crm_crew/crew.py lines 749-756 and         *)
(* 827-834): the method has assembled the Crew and calls kickoff() on it.  *)
(* kickoff() belongs to the crewai package, which is no part of the        *)
(* repository: what the engine does with the Crew is left open, and the    *)
(* model keeps the Crew that was handed over.                              *)
Kickoff(c, crew) ==
    /\ pc = "idle"
    /\ pc' = "running"
    /\ call' = c
    /\ kickoff' = [crew |-> crew]
    /\ result' = NoResult
    /\ earlier' = NoResult
    /\ UNCHANGED <<schema, kpi, session>>

(* return crew.kickoff(): the method returns whatever kickoff() hands      *)
(* back, unchanged.                                                        *)
KickoffReturns ==
    /\ pc = "running"
    /\ pc' = "returned"
    /\ \E output \in CrewOutputs : result' = [returned |-> output]
    /\ UNCHANGED <<schema, kpi, call, earlier, kickoff, session>>

(* return crew.kickoff(): no call site is inside a try, so an exception    *)
(* raised by kickoff() leaves the method.                                  *)
KickoffRaises ==
    /\ pc = "running"
    /\ pc' = "returned"
    /\ \E exception \in KickoffExceptions : result' = [raised |-> exception]
    /\ UNCHANGED <<schema, kpi, call, earlier, kickoff, session>>

SchemaExplorer ==
    \E entity_name \in EntityNameInputs, include_relationships \in BOOLEAN :
        Invoke([tool |-> "SchemaExplorerTool",
                args |-> [entity_name |-> entity_name,
                          include_relationships |-> include_relationships]])

EntityRelationship ==
    \E source_entity \in EntityNameInputs, target_entity \in TargetInputs,
       relationship_depth \in DepthInputs :
        Invoke([tool |-> "EntityRelationshipTool",
                args |-> [source_entity |-> source_entity,
                          target_entity |-> target_entity,
                          relationship_depth |-> relationship_depth]])

ColumnAnalyzer ==
    \E entity_name \in EntityNameInputs, column_filter \in ColumnFilterInputs,
       include_system_columns \in BOOLEAN :
        Invoke([tool |-> "ColumnAnalyzerTool",
                args |-> [entity_name |-> entity_name,
                          column_filter |-> column_filter,
                          include_system_columns |-> include_system_columns]])

DataDictionary ==
    \E entity \in EntityNameInputs, include_lookup_values \in BOOLEAN :
        Invoke([tool |-> "DataDictionaryTool",
                args |-> [entity |-> entity,
                          include_lookup_values |-> include_lookup_values]])

MetricCalculator ==
    \E metric_id \in MetricIdInputs, time_period \in TimePeriodInputs,
       group_by \in GroupByInputs :
        Invoke([tool |-> "MetricCalculatorTool",
                args |-> [metric_id |-> metric_id,
                          time_period |-> time_period,
                          group_by |-> group_by]])

SQLQueryBuilder ==
    \E entities \in EntitiesInputs, filters \in FiltersInputs,
       aggregations \in AggregationsInputs, grouping \in GroupingInputs,
       ordering \in OrderingInputs :
        Invoke([tool |-> "SQLQueryBuilderTool",
                args |-> [objective |-> "objective",
                          entities |-> entities,
                          filters |-> filters,
                          aggregations |-> aggregations,
                          grouping |-> grouping,
                          ordering |-> ordering]])

TicketUpdater ==
    \E ticket_id \in TicketIdInputs, field \in FieldInputs, value \in ValueInputs :
        Invoke([tool |-> "TicketUpdaterTool",
                args |-> [ticket_id |-> ticket_id, field |-> field, value |-> value]])

TicketCreator ==
    \E title \in TitleInputs, ticket_type \in TicketTypeInputs, labels \in LabelsInputs :
        Invoke([tool |-> "TicketCreatorTool",
                args |-> [title |-> title,
                          description |-> "description",
                          ticket_type |-> ticket_type,
                          priority |-> "medium",
                          labels |-> labels]])

AskQuestion ==
    \E question \in QuestionInputs :
        Kickoff([tool |-> "ask_question", args |-> [question |-> question]],
                ask_question(question).crew)

TicketSearch ==
    \E query \in QueryInputs, status \in StatusInputs, limit \in LimitInputs :
        Invoke([tool |-> "TicketSearchTool",
                args |-> [query |-> query, status |-> status, limit |-> limit]])

SchemaDocGenerator ==
    \E entities \in DocEntitiesInputs, format \in DocFormatInputs,
       include_relationships \in BOOLEAN, include_examples \in BOOLEAN :
        Invoke([tool |-> "SchemaDocGeneratorTool",
                args |-> [entities |-> entities,
                          format |-> format,
                          include_relationships |-> include_relationships,
                          include_examples |-> include_examples]])

ERDGenerator ==
    \E entities \in ErdEntitiesInputs, format \in ErdFormatInputs, show_columns \in BOOLEAN :
        Invoke([tool |-> "ERDGeneratorTool",
                args |-> [entities |-> entities,
                          format |-> format,
                          show_columns |-> show_columns]])

SprintPlanner ==
    \E capacity \in CapacityInputs, items \in ItemsInputs :
        Invoke([tool |-> "SprintPlannerTool",
                args |-> [sprint_name |-> "Sprint 5", capacity |-> capacity, items |-> items]])

ODataQueryBuilder ==
    \E entity \in ODataEntityInputs, select_fields \in SelectFieldsInputs,
       filter_expression \in FilterExpressionInputs,
       expand_relations \in ExpandRelationsInputs, top \in TopInputs :
        Invoke([tool |-> "ODataQueryBuilderTool",
                args |-> [entity |-> entity,
                          select_fields |-> select_fields,
                          filter_expression |-> filter_expression,
                          expand_relations |-> expand_relations,
                          top |-> top]])

QueryValidator ==
    \E query \in ValidatorQueryInputs, query_type \in QueryTypeInputs :
        Invoke([tool |-> "QueryValidatorTool",
                args |-> [query |-> query, query_type |-> query_type]])

KPILibrary ==
    \E category \in CategoryInputs, search_term \in SearchTermInputs :
        Invoke([tool |-> "KPILibraryTool",
                args |-> [category |-> category, search_term |-> search_term]])

FullTicketToSprintWorkflow ==
    \E tickets \in TicketsInputs :
        Kickoff([tool |-> "full_ticket_to_sprint_workflow",
                 args |-> [tickets |-> tickets,
                           team_capacity |-> "40 points",
                           sprint_goal |-> "Stabilise login"]],
                full_ticket_to_sprint_workflow(tickets, "40 points", "Stabilise login"))

DashboardDesigner ==
    \E dashboard_purpose \in DashboardPurposeInputs, audience \in AudienceInputs,
       key_questions \in KeyQuestionsInputs :
        Invoke([tool |-> "DashboardDesignerTool",
                args |-> [dashboard_purpose |-> dashboard_purpose, audience |-> audience,
                          key_questions |-> key_questions]])

(* lines 211-225: the command starts, prints the panel and builds the      *)
(* crew; the loop is about to prompt.                                      *)
Interactive ==
    /\ pc = "idle"
    /\ pc' = "interactive"
    /\ session' = Pass("prompt", None, << >>, InteractivePanel)
    /\ UNCHANGED <<schema, kpi, call, result, earlier, kickoff>>

(* lines 229-263: console.input returns a line and the loop handles it,    *)
(* up to a crew call, a continue or the break.                             *)
ReadLine ==
    /\ pc = "interactive"
    /\ session.at = "prompt"
    /\ \E user_input \in UserInputLines : session' = Dispatch(user_input)
    /\ UNCHANGED <<schema, kpi, pc, call, result, earlier, kickoff>>

(* lines 229 and 264-267: console.input raises instead of returning, a     *)
(* KeyboardInterrupt on Ctrl-C or an exception such as EOFError; either is *)
(* caught and the loop prompts again.                                      *)
InputInterrupted ==
    /\ pc = "interactive"
    /\ session.at = "prompt"
    /\ session' = Pass("prompt", None, << >>, InterruptNotice)
    /\ UNCHANGED <<schema, kpi, pc, call, result, earlier, kickoff>>

InputRaises ==
    /\ pc = "interactive"
    /\ session.at = "prompt"
    /\ \E e \in InputErrorMessages : session' = Pass("prompt", None, << >>, ErrorNotice(e))
    /\ UNCHANGED <<schema, kpi, pc, call, result, earlier, kickoff>>

(* lines 254-262: the crew method returns and its result is printed.       *)
CrewReturns ==
    /\ pc = "interactive"
    /\ session.at = "crew"
    /\ \E output \in CrewOutputs :
           session' = Pass("prompt", session.user_input, session.invoked, output)
    /\ UNCHANGED <<schema, kpi, pc, call, result, earlier, kickoff>>

(* lines 254-258 and 266-267: the crew method raises an exception.         *)
CrewRaises ==
    /\ pc = "interactive"
    /\ session.at = "crew"
    /\ \E e \in CrewErrorMessages :
           session' = Pass("prompt", session.user_input, session.invoked, ErrorNotice(e))
    /\ UNCHANGED <<schema, kpi, pc, call, result, earlier, kickoff>>

(* lines 254-258 and 264-265: Ctrl-C while the crew method runs.           *)
CrewInterrupted ==
    /\ pc = "interactive"
    /\ session.at = "crew"
    /\ session' = Pass("prompt", session.user_input, session.invoked, InterruptNotice)
    /\ UNCHANGED <<schema, kpi, pc, call, result, earlier, kickoff>>

(* lines 244-246: after the break the command returns.                     *)
SessionEnds ==
    /\ pc = "interactive"
    /\ session.at = "ended"
    /\ pc' = "idle"
    /\ session' = NoSession
    /\ UNCHANGED <<schema, kpi, call, result, earlier, kickoff>>

(* run_custom_workflow: with no task left the method returns at once;     *)
(* otherwise it kicks off the Crew it has built and returns what           *)
(* crew.kickoff() returns (creatio_crm_crew/crew.py, lines 824-834).       *)
CreatioCustomWorkflow ==
    \E workflow_config \in WorkflowConfigInputs :
        LET c == [tool |-> "CreatioCRMCrew.run_custom_workflow",
                  args |-> [workflow_config |-> workflow_config]]
            outcome == CreatioCRMCrew_run_custom_workflow(workflow_config)
        IN  IF "crew" \in DOMAIN outcome THEN Kickoff(c, outcome.crew) ELSE Invoke(c)

(* devlifecycle_crew/crew.py, lines 590-600: the same for DevLifecycleCrew; *)
(* a KeyError leaves the method before any Crew is built.                  *)
DevLifecycleCustomWorkflow ==
    \E workflow_config \in WorkflowConfigInputs :
        LET c == [tool |-> "DevLifecycleCrew.run_custom_workflow",
                  args |-> [workflow_config |-> workflow_config]]
            outcome == DevLifecycleCrew_run_custom_workflow(workflow_config)
        IN  IF "crew" \in DOMAIN outcome THEN Kickoff(c, outcome.crew) ELSE Invoke(c)

Next ==
    \/ SchemaExplorer
    \/ DataDictionary
    \/ EntityRelationship
    \/ ColumnAnalyzer
    \/ MetricCalculator
    \/ SQLQueryBuilder
    \/ TicketUpdater
    \/ TicketCreator
    \/ AskQuestion
    \/ TicketSearch
    \/ SchemaDocGenerator
    \/ ERDGenerator
    \/ SprintPlanner
    \/ ODataQueryBuilder
    \/ QueryValidator
    \/ KPILibrary
    \/ FullTicketToSprintWorkflow
    \/ KickoffReturns
    \/ KickoffRaises
    \/ DashboardDesigner
    \/ Interactive
    \/ ReadLine
    \/ InputInterrupted
    \/ InputRaises
    \/ CrewReturns
    \/ CrewRaises
    \/ CrewInterrupted
    \/ SessionEnds
    \/ CreatioCustomWorkflow
    \/ DevLifecycleCustomWorkflow
    \/ Reinvoke
    \/ Return

Spec == Init /\ [][Next]_vars

---------------------------------------------------------------------------
(***************************************************************************)
(* Properties                                                              *)
(***************************************************************************)

(* The four tools that look one entity up, and the name each was given.    *)
EntityLookupTools ==
    {"SchemaExplorerTool", "EntityRelationshipTool", "ColumnAnalyzerTool", "DataDictionaryTool"}

LookedUpName ==
    CASE call.tool = "EntityRelationshipTool" -> call.args.source_entity
      [] call.tool = "DataDictionaryTool" -> call.args.entity
      [] OTHER -> call.args.entity_name

EntityLookupReturned == pc = "returned" /\ call.tool \in EntityLookupTools

(* The five column names ColumnAnalyzerTool treats as system columns.      *)
SystemColumnNames ==
    {"CreatedOn", "ModifiedOn", "CreatedById", "ModifiedById", "ProcessListeners"}

(* The stored columns of a key that a ColumnAnalyzerTool call asks for, in *)
(* stored order: system columns only when they are included, and with a    *)
(* filter only the columns whose name contains it when case is ignored.    *)
RequestedColumns(key) ==
    SelectSeq(schema[key].key_columns,
              LAMBDA c :
                  /\ call.args.include_system_columns \/ c.name \notin SystemColumnNames
                  /\ Truthy(call.args.column_filter) =>
                        Contains(Lower(c.name), Lower(call.args.column_filter)))

(* The stored relationships of a key that an EntityRelationshipTool call   *)
(* asks for, in stored order: all of them, or, when target_entity equals a *)
(* key of the table when case is ignored, those to that entity.            *)
RequestedRelationships(key) ==
    LET target == call.args.target_entity
        stored == schema[key].relationships
    IN  IF Truthy(target) /\ \E k \in DOMAIN schema : Lower(k) = Lower(target)
        THEN SelectSeq(stored, LAMBDA r : Lower(r.entity) = Lower(target))
        ELSE stored

(* C1, as amended: entity key lookup is case-insensitive in the four       *)
(* single-entity tools.  For every entity name equal to a key of           *)
(* CREATIO_SCHEMA_KNOWLEDGE when case is ignored, each tool returns        *)
(* success=True naming that key.  SchemaExplorerTool returns the key's     *)
(* stored table_name, description and key_columns.  DataDictionaryTool     *)
(* returns the stored table_name and description and one entry per stored  *)
(* column with its name, type and description.  ColumnAnalyzerTool returns *)
(* neither table_name nor description; its columns are exactly the stored *)
(* columns, in stored order, that are not system columns unless            *)
(* include_system_columns is true and whose name contains column_filter    *)
(* (case ignored) when one is given.  EntityRelationshipTool returns no    *)
(* table_name, description or columns; its direct_relationships are the    *)
(* stored relationships of the key, or, when target_entity equals a key    *)
(* when case is ignored, exactly those of them to that entity.             *)
C1_CaseInsensitiveEntityLookup ==
    \A key \in DOMAIN schema :
        (EntityLookupReturned /\ Lower(LookedUpName) = Lower(key)) =>
            /\ result.success = TRUE
            /\ CASE call.tool = "SchemaExplorerTool" ->
                      /\ result.entity = key
                      /\ result.table_name = schema[key].table_name
                      /\ result.description = schema[key].description
                      /\ result.columns = schema[key].key_columns
                 [] call.tool = "DataDictionaryTool" ->
                      LET stored == schema[key].key_columns
                          entries == result.data_dictionary.columns
                      IN  /\ result.entity = key
                          /\ result.table_name = schema[key].table_name
                          /\ result.description = schema[key].description
                          /\ Len(entries) = Len(stored)
                          /\ \A i \in 1..Len(stored) :
                                /\ entries[i].column_name = stored[i].name
                                /\ entries[i].data_type = stored[i].type
                                /\ entries[i].description = stored[i].description
                 [] call.tool = "ColumnAnalyzerTool" ->
                      /\ result.entity = key
                      /\ {"table_name", "description"} \cap DOMAIN result = {}
                      /\ result.columns = RequestedColumns(key)
                 [] call.tool = "EntityRelationshipTool" ->
                      /\ result.source_entity = key
                      /\ {"table_name", "description", "columns"} \cap DOMAIN result = {}
                      /\ result.direct_relationships = RequestedRelationships(key)

(* C1: ColumnAnalyzerTool, given a key in another case, resolves it and    *)
(* returns fewer columns than are stored for it.                           *)
C1_Witness ==
    /\ pc = "returned"
    /\ call.tool = "ColumnAnalyzerTool"
    /\ call.args.entity_name = "cONTACT"
    /\ result.success = TRUE
    /\ result.entity = "Contact"
    /\ Len(result.columns) < Len(schema["Contact"].key_columns)

(* C1, as stated: for every entity name equal to a key when case is        *)
(* ignored, each of the four tools returns success=True with that key's    *)
(* stored table_name, description and columns.                             *)
C1_AsStated ==
    \A key \in DOMAIN schema :
        (EntityLookupReturned /\ Lower(LookedUpName) = Lower(key)) =>
            /\ result.success = TRUE
            /\ "table_name" \in DOMAIN result /\ result.table_name = schema[key].table_name
            /\ "description" \in DOMAIN result /\ result.description = schema[key].description
            /\ "columns" \in DOMAIN result /\ result.columns = schema[key].key_columns

(* The position of the only dot of a metric id, 0 when it has none or      *)
(* several.                                                                *)
OnlyDot(metric_id) ==
    LET dots == {i \in 1..Len(metric_id) : CharAt(metric_id, i) = "."}
    IN  IF Cardinality(dots) = 1 THEN CHOOSE i \in dots : TRUE ELSE 0

CategoryPart(metric_id) == SubSeq(metric_id, 1, OnlyDot(metric_id) - 1)

MetricPart(metric_id) == SubSeq(metric_id, OnlyDot(metric_id) + 1, Len(metric_id))

MetricCalculatorReturned == pc = "returned" /\ call.tool = "MetricCalculatorTool"

(* C2, as stated: for every metric_id whose category and metric name equal *)
(* a category key and a metric key of CRM_KPI_LIBRARY when case is         *)
(* ignored, MetricCalculatorTool returns success=True with that KPI's      *)
(* stored name, description, unit and formula.                             *)
C2_AsStated ==
    \A category \in DOMAIN kpi :
        \A metric \in DOMAIN kpi[category] :
            (/\ MetricCalculatorReturned
             /\ OnlyDot(call.args.metric_id) # 0
             /\ Lower(CategoryPart(call.args.metric_id)) = Lower(category)
             /\ Lower(MetricPart(call.args.metric_id)) = Lower(metric)) =>
                /\ result.success = TRUE
                /\ result.metric.name = kpi[category][metric].name
                /\ result.metric.description = kpi[category][metric].description
                /\ result.metric.unit = kpi[category][metric].unit
                /\ result.calculation.formula = kpi[category][metric].formula

(* No key of the schema table equals the name when case and surrounding    *)
(* blanks are ignored.                                                     *)
MatchesNoKey(name) == \A key \in DOMAIN schema : Lower(Strip(name)) # Lower(key)

(* The result lists every key of the schema table, each once.              *)
ListsAllEntityKeys(r) ==
    /\ "available_entities" \in DOMAIN r
    /\ Range(r.available_entities) = DOMAIN schema
    /\ Len(r.available_entities) = Cardinality(DOMAIN schema)

(* C3, as stated: for every entity name that matches no key of             *)
(* CREATIO_SCHEMA_KNOWLEDGE, each of the four single-entity tools returns  *)
(* a success=False result that contains the list of all entity keys.       *)
C3_AsStated ==
    (EntityLookupReturned /\ MatchesNoKey(LookedUpName)) =>
        /\ result.success = FALSE
        /\ ListsAllEntityKeys(result)

(* C4: MetricCalculatorTool on a metric_id with exactly one dot.  When the *)
(* category part is no key of CRM_KPI_LIBRARY the result is success=False  *)
(* with available_categories equal to all category keys; when the category *)
(* is a key and the metric part is no key of it the result is              *)
(* success=False with available_metrics equal to all metric keys of the    *)
(* category; otherwise the result is success=True.                         *)
C4_MetricCalculatorOutcome ==
    (MetricCalculatorReturned /\ OnlyDot(call.args.metric_id) # 0) =>
        LET category == CategoryPart(call.args.metric_id)
            metric == MetricPart(call.args.metric_id)
        IN  IF category \notin DOMAIN kpi
            THEN /\ result.success = FALSE
                 /\ "available_categories" \in DOMAIN result
                 /\ Range(result.available_categories) = DOMAIN kpi
                 /\ Len(result.available_categories) = Cardinality(DOMAIN kpi)
            ELSE IF metric \notin DOMAIN kpi[category]
            THEN /\ result.success = FALSE
                 /\ "available_metrics" \in DOMAIN result
                 /\ Range(result.available_metrics) = DOMAIN kpi[category]
                 /\ Len(result.available_metrics) = Cardinality(DOMAIN kpi[category])
            ELSE result.success = TRUE

(* C4: a known category with a metric name that is not one of its own.     *)
C4_Witness ==
    /\ MetricCalculatorReturned
    /\ call.args.metric_id = "marketing.win_rate"
    /\ result.success = FALSE
    /\ "available_metrics" \in DOMAIN result
    /\ Len(result.available_metrics) = Cardinality(DOMAIN kpi["marketing"])

(* C5, as stated: no tool raises an exception; for every combination of    *)
(* string arguments each tool's _run returns a result.                     *)
C5_AsStated ==
    (pc = "returned" /\ EndsWith(call.tool, "Tool")) => "raised" \notin DOMAIN result

(* The valid options a not-found result of each tool has to carry.         *)
UnknownEntityWithOptions ==
    /\ call.tool \in EntityLookupTools
    /\ \A key \in DOMAIN schema : Lower(LookedUpName) # Lower(key)
    /\ ListsAllEntityKeys(result)

UnknownMetricWithOptions ==
    /\ call.tool = "MetricCalculatorTool"
    /\ OnlyDot(call.args.metric_id) # 0
    /\ LET category == CategoryPart(call.args.metric_id)
           metric == MetricPart(call.args.metric_id)
       IN  \/ /\ category \notin DOMAIN kpi
              /\ "available_categories" \in DOMAIN result
              /\ Range(result.available_categories) = DOMAIN kpi
           \/ /\ category \in DOMAIN kpi
              /\ metric \notin DOMAIN kpi[category]
              /\ "available_metrics" \in DOMAIN result
              /\ Range(result.available_metrics) = DOMAIN kpi[category]

TicketFields == {"status", "priority", "assignee", "labels", "description"}

UnknownFieldWithOptions ==
    /\ call.tool = "TicketUpdaterTool"
    /\ Lower(call.args.field) \notin TicketFields
    /\ \A f \in TicketFields : Contains(result.error, f)

(* C6, as stated: whenever a tool returns success=False the cause is an    *)
(* unknown entity, an unknown metric category or metric key, or an unknown *)
(* ticket field, and the result carries the list of valid options; no tool *)
(* returns success=False for any other reason.                             *)
C6_AsStated ==
    (pc = "returned" /\ "success" \in DOMAIN result /\ result.success = FALSE) =>
        \/ UnknownEntityWithOptions
        \/ UnknownMetricWithOptions
        \/ UnknownFieldWithOptions

(* C7, as stated: two invocations of a tool with identical arguments       *)
(* return identical results, for every tool, TicketCreatorTool included.   *)
C7_AsStated == (pc = "returned" /\ earlier # NoResult) => result = earlier

(* C8: the static tables are never mutated; after any sequence of tool     *)
(* invocations CREATIO_SCHEMA_KNOWLEDGE and CRM_KPI_LIBRARY, with every     *)
(* nested list, equal their initial values.                                *)
C8_TablesNeverMutated == schema = CREATIO_SCHEMA_KNOWLEDGE /\ kpi = CRM_KPI_LIBRARY

(* C8: ColumnAnalyzerTool has run twice with a filter that keeps some and  *)
(* drops some of the stored columns of the entity.                         *)
C8_Witness ==
    /\ pc = "returned"
    /\ earlier # NoResult
    /\ call.tool = "ColumnAnalyzerTool"
    /\ Truthy(call.args.column_filter)
    /\ result.success = TRUE
    /\ Len(result.columns) > 0
    /\ Len(result.columns) < Len(CREATIO_SCHEMA_KNOWLEDGE[result.entity].key_columns)

(* C9: ask_question routes every question to exactly one agent by          *)
(* substring match on the lowercased question: the schema analyst when it  *)
(* contains a schema keyword, otherwise the query builder when it contains *)
(* a query keyword, otherwise the metrics expert when it contains a        *)
(* metrics keyword, otherwise the schema analyst.  The crew kicked off has *)
(* that single agent and a single task, bound to that agent.               *)
C9_AskQuestionRouting ==
    (pc \in {"running", "returned"} /\ call.tool = "ask_question") =>
        LET lowered == Lower(call.args.question)
            Mentions(words) == \E w \in words : Contains(lowered, w)
            routed ==
                IF Mentions({"schema", "table", "column", "entity", "relationship", "structure"})
                THEN "schema_analyst"
                ELSE IF Mentions({"query", "sql", "odata", "select", "join", "extract"})
                THEN "query_builder"
                ELSE IF Mentions({"kpi", "metric", "measure", "dashboard", "report", "analytics"})
                THEN "metrics_expert"
                ELSE "schema_analyst"
        IN  /\ kickoff.crew.agents = <<routed>>
            /\ Len(kickoff.crew.tasks) = 1
            /\ kickoff.crew.tasks[1].agent = routed
            /\ kickoff.crew.tasks[1].question = call.args.question

(* C9: a question with a metrics keyword and a query keyword went to the   *)
(* query builder.                                                          *)
C9_Witness ==
    /\ pc = "returned"
    /\ call.tool = "ask_question"
    /\ call.args.question = "report sql"
    /\ kickoff.crew.agents = <<"query_builder">>
    /\ kickoff.crew.tasks[1].agent = "query_builder"
    /\ kickoff.crew.tasks[1].question = "report sql"

(* C10: TicketUpdaterTool succeeds for every field whose lowercase form is *)
(* status, priority, assignee, labels or description, echoing ticket_id,   *)
(* the field as given and the new value; for every other field it returns  *)
(* success=False with an error that lists the valid fields.  The outcome   *)
(* depends on the field only, whatever ticket_id and value are.            *)
C10_TicketUpdaterFields ==
    (pc = "returned" /\ call.tool = "TicketUpdaterTool") =>
        IF Lower(call.args.field) \in TicketFields
        THEN /\ result.success = TRUE
             /\ result.ticket_id = call.args.ticket_id
             /\ result.field_updated = call.args.field
             /\ result.new_value = call.args.value
        ELSE /\ result.success = FALSE
             /\ \A f \in TicketFields : Contains(result.error, f)

(* C10: a field in another case is accepted and echoed as given, with an   *)
(* empty ticket id and an empty value.                                     *)
C10_Witness ==
    /\ pc = "returned"
    /\ call.tool = "TicketUpdaterTool"
    /\ call.args.field = "PRIORITY"
    /\ call.args.ticket_id = ""
    /\ call.args.value = ""
    /\ result.success = TRUE
    /\ result.field_updated = "PRIORITY"

(* C11, as stated: TicketSearchTool filters by status; for every status    *)
(* argument other than 'all', every ticket of the returned tickets list    *)
(* has exactly that status.                                                *)
C11_AsStated ==
    (pc = "returned" /\ call.tool = "TicketSearchTool" /\ call.args.status # "all") =>
        \A i \in 1..Len(result.tickets) : result.tickets[i].status = call.args.status


(* C12: SchemaDocGeneratorTool and ERDGeneratorTool: whenever at least one *)
(* name of the comma-separated entities argument matches no schema key     *)
(* (case-insensitively), the result contains the enumerated list of the    *)
(* valid entity keys, also when other names of the argument are valid.     *)
EntityListTools == {"SchemaDocGeneratorTool", "ERDGeneratorTool"}

SomeNameMatchesNoKey ==
    LET entity_list == ParseEntityList(schema, call.args.entities)
    IN  \E i \in 1..Len(entity_list) : MatchesNoKey(entity_list[i])

C12_AsStated ==
    (pc = "returned" /\ call.tool \in EntityListTools /\ SomeNameMatchesNoKey) =>
        /\ "available_entities" \in DOMAIN result
        /\ result.available_entities = Keys(schema, SchemaKeyOrder)

(* C13: the tables are well formed, at load and after every call: every    *)
(* metric record of every category of CRM_KPI_LIBRARY has the fields name, *)
(* description, formula, unit and entities; every entity record of         *)
(* CREATIO_SCHEMA_KNOWLEDGE has description, table_name and a non-empty    *)
(* key_columns; Contact, Account, Opportunity, Lead, Activity and Case are *)
(* keys of the schema table.                                               *)
MetricFields == {"name", "description", "formula", "unit", "entities"}

EntityFields == {"description", "table_name", "key_columns"}

CoreEntities == {"Contact", "Account", "Opportunity", "Lead", "Activity", "Case"}

C13_TablesWellFormed ==
    /\ \A category \in DOMAIN kpi : \A metric \in DOMAIN kpi[category] :
            MetricFields \subseteq DOMAIN kpi[category][metric]
    /\ \A entity \in DOMAIN schema :
            /\ EntityFields \subseteq DOMAIN schema[entity]
            /\ schema[entity].key_columns # << >>
    /\ CoreEntities \subseteq DOMAIN schema

(* The tables after a tool that filters an entity's columns has run twice. *)
C13_Witness ==
    /\ pc = "returned"
    /\ call.tool = "ColumnAnalyzerTool"
    /\ earlier # NoResult
    /\ DOMAIN kpi # {}
    /\ CoreEntities \subseteq DOMAIN schema
    /\ \A entity \in CoreEntities : schema[entity].key_columns # << >>

(* C14: SprintPlannerTool partitions its input: with L the non-empty       *)
(* trimmed items of the comma-separated items argument, in input order,    *)
(* recommended_items is the first min(5, |L|) elements of L,               *)
(* deferred_items is the rest, recommended_items followed by               *)
(* deferred_items is L, and items_considered is |L|.                       *)
NonEmptyTrimmed(text) ==
    LET pieces == Split(text, ",")
        trimmed == [i \in 1..Len(pieces) |-> Strip(pieces[i])]
    IN  SelectSeq(trimmed, LAMBDA piece : piece # "")

SprintPlannerReturned == pc = "returned" /\ call.tool = "SprintPlannerTool"

C14_SprintPlannerPartition ==
    SprintPlannerReturned =>
        LET L == NonEmptyTrimmed(call.args.items)
            cut == IF Len(L) < 5 THEN Len(L) ELSE 5
        IN  /\ result.recommended_items = SubSeq(L, 1, cut)
            /\ result.deferred_items = SubSeq(L, cut + 1, Len(L))
            /\ result.recommended_items \o result.deferred_items = L
            /\ result.items_considered = Len(L)

(* A plan for more than five items, some of them blank or padded.          *)
C14_Witness ==
    /\ SprintPlannerReturned
    /\ Len(Split(call.args.items, ",")) > result.items_considered
    /\ Len(result.recommended_items) = 5
    /\ Len(result.deferred_items) = 2
    /\ result.deferred_items[1] = "f"

(* C15: ERDGeneratorTool in mermaid format, which is also what an          *)
(* unrecognised format gets: the diagram starts with the line erDiagram,   *)
(* declares every resolved entity, and has relationship lines only between *)
(* two entities of the resolved list, at most one for each unordered pair  *)
(* of entities.                                                            *)
MermaidReturned ==
    /\ pc = "returned"
    /\ call.tool = "ERDGeneratorTool"
    /\ Lower(call.args.format) \notin {"plantuml", "dbml"}
    /\ result.success

(* The lines of a text: the pieces between its newline characters.         *)
RECURSIVE LinesFrom(_, _, _)
LinesFrom(text, breaks, start) ==
    LET rest == {i \in breaks : i >= start}
    IN  IF rest = {} THEN <<SubSeq(text, start, Len(text))>>
        ELSE LET stop == CHOOSE i \in rest : \A j \in rest : i <= j
             IN  <<SubSeq(text, start, stop - 1)>> \o LinesFrom(text, breaks, stop + 1)

LinesOf(text) == LinesFrom(text, {i \in 1..Len(text) : SubSeq(text, i, i) = "\n"}, 1)

MermaidArrows == {"||--o{", "}o--||", "}o--o{", "||--||"}

(* The words of a diagram line, and whether it is a relationship line:     *)
(* <entity> <arrow> <entity> : <label>.                                    *)
LineWords(line) == Split(Strip(line), " ")

IsRelationshipLine(line) ==
    LET words == LineWords(line)
    IN  Len(words) = 5 /\ words[2] \in MermaidArrows /\ words[4] = ":"

LineEnds(line) == {LineWords(line)[1], LineWords(line)[3]}

IsDeclarationOf(line, entity) ==
    line = "    " \o entity \/ line = "    " \o entity \o " {"

C15_MermaidDiagram ==
    MermaidReturned =>
        LET lines == LinesOf(result.diagram)
            resolved == Range(result.entities_included)
            rel_lines == {i \in 1..Len(lines) : IsRelationshipLine(lines[i])}
        IN  /\ lines[1] = "erDiagram"
            /\ \A entity \in resolved :
                   \E i \in 2..Len(lines) : IsDeclarationOf(lines[i], entity)
            /\ \A i \in rel_lines : LineEnds(lines[i]) \subseteq resolved
            /\ \A i, j \in rel_lines : LineEnds(lines[i]) = LineEnds(lines[j]) => i = j

(* A diagram of entities that name each other in both directions, and one *)
(* of which also relates to an entity outside the list: the pair has one   *)
(* line.                                                                   *)
C15_Witness ==
    /\ MermaidReturned
    /\ LET lines == LinesOf(result.diagram)
           resolved == Range(result.entities_included)
           Targets(entity) ==
               {schema[entity].relationships[i].entity :
                    i \in 1..Len(schema[entity].relationships)}
       IN  /\ \E a, b \in resolved :
                  /\ a # b
                  /\ b \in Targets(a)
                  /\ a \in Targets(b)
                  /\ Targets(a) \ resolved # {}
                  /\ Cardinality({i \in 1..Len(lines) :
                                     /\ IsRelationshipLine(lines[i])
                                     /\ LineEnds(lines[i]) = {a, b}}) = 1

(* C16: ODataQueryBuilderTool: odata_url is '/0/odata/' + entity +         *)
(* 'Collection', then '?', then the parameters joined by '&' in the order  *)
(* $select, $filter, $expand, $top; each of the first three is present     *)
(* exactly when its argument is a non-empty string, and $top=<top> is      *)
(* present exactly once, as the last parameter, whatever the input.        *)
ODataReturned == pc = "returned" /\ call.tool = "ODataQueryBuilderTool"

NonEmptyString(arg) == arg # None /\ arg # ""

Occurrences(text, sub) ==
    Cardinality({i \in 1..(Len(text) - Len(sub) + 1) :
                     SubSeq(text, i, i + Len(sub) - 1) = sub})

ExpectedODataParams ==
    (IF NonEmptyString(call.args.select_fields)
     THEN <<"$select=" \o StrippedList(call.args.select_fields)>> ELSE << >>)
    \o (IF NonEmptyString(call.args.filter_expression)
        THEN <<"$filter=" \o _convert_to_odata_filter(call.args.filter_expression,
                                                      call.args.entity)>>
        ELSE << >>)
    \o (IF NonEmptyString(call.args.expand_relations)
        THEN <<"$expand=" \o StrippedList(call.args.expand_relations)>> ELSE << >>)
    \o <<"$top=" \o ToString(call.args.top)>>

C16_ODataUrl ==
    ODataReturned =>
        LET url == result.odata_url
        IN  /\ url = "/0/odata/" \o call.args.entity \o "Collection?"
                         \o Join(ExpectedODataParams, "&")
            /\ Occurrences(url, "$select=") =
                   IF NonEmptyString(call.args.select_fields) THEN 1 ELSE 0
            /\ Occurrences(url, "$filter=") =
                   IF NonEmptyString(call.args.filter_expression) THEN 1 ELSE 0
            /\ Occurrences(url, "$expand=") =
                   IF NonEmptyString(call.args.expand_relations) THEN 1 ELSE 0
            /\ Occurrences(url, "$top=") = 1
            /\ EndsWith(url, "&$top=" \o ToString(call.args.top))
                   \/ EndsWith(url, "?$top=" \o ToString(call.args.top))

(* A URL for top = 0 with a select list, a filter and an empty expand.     *)
C16_Witness ==
    /\ ODataReturned
    /\ call.args.top = 0
    /\ call.args.expand_relations = ""
    /\ result.odata_url =
           "/0/odata/opportunityCollection?$select=Id,Name,Email"
               \o "&$filter=CreatedOn ge cast(now(), Edm.DateTimeOffset) and Stage/IsFinal eq false"
               \o "&$top=0"

(* C17: SQLQueryBuilderTool, for an entities list of non-empty names: the  *)
(* query is the clauses SELECT, FROM, WHERE, GROUP BY, ORDER BY in that    *)
(* order, joined by newlines and terminated by a single ';'; SELECT and    *)
(* FROM are always present; WHERE, GROUP BY and ORDER BY are present       *)
(* exactly when filters, grouping and ordering are non-empty strings.      *)
SQLReturnedForNonEmptyNames ==
    /\ pc = "returned"
    /\ call.tool = "SQLQueryBuilderTool"
    /\ LET names == Split(call.args.entities, ",")
       IN  \A i \in 1..Len(names) : Strip(names[i]) # ""

(* The clause a line of the query opens, if any: a clause keyword at the   *)
(* start of the line.                                                      *)
ClauseOpened(line) ==
    CASE StartsWith(line, "SELECT") -> "SELECT"
      [] StartsWith(line, "FROM ") -> "FROM"
      [] StartsWith(line, "WHERE") -> "WHERE"
      [] StartsWith(line, "GROUP BY ") -> "GROUP BY"
      [] StartsWith(line, "ORDER BY ") -> "ORDER BY"
      [] OTHER -> ""

ClausesOf(query) ==
    LET lines == LinesOf(query)
    IN  SelectSeq([i \in 1..Len(lines) |-> ClauseOpened(lines[i])],
                  LAMBDA clause : clause # "")

ExpectedClauses ==
    <<"SELECT", "FROM">>
        \o (IF NonEmptyString(call.args.filters) THEN <<"WHERE">> ELSE << >>)
        \o (IF NonEmptyString(call.args.grouping) THEN <<"GROUP BY">> ELSE << >>)
        \o (IF NonEmptyString(call.args.ordering) THEN <<"ORDER BY">> ELSE << >>)

C17_SQLQueryClauses ==
    SQLReturnedForNonEmptyNames =>
        /\ "query" \in DOMAIN result
        /\ ClausesOf(result.query) = ExpectedClauses
        /\ ClauseOpened(LinesOf(result.query)[1]) = "SELECT"
        /\ Occurrences(result.query, ";") = 1
        /\ EndsWith(result.query, ";")

(* A query with a WHERE of two conditions and an ORDER BY, for an empty    *)
(* grouping string and a second entity that has a join template.           *)
C17_Witness ==
    /\ SQLReturnedForNonEmptyNames
    /\ call.args.entities = "Contact,Account"
    /\ call.args.grouping = ""
    /\ call.args.aggregations = None
    /\ ClausesOf(result.query) = <<"SELECT", "FROM", "WHERE", "ORDER BY">>
    /\ Len(LinesOf(result.query)) > 10

(* C18: QueryValidatorTool: in every result is_valid is False exactly when *)
(* the errors list is non-empty, validation_summary.is_valid equals        *)
(* is_valid, error_count and warning_count are the lengths of errors and   *)
(* warnings; for a query_type other than 'sql' is_valid is always True;    *)
(* for query_type 'sql' a query without the substring 'select', in any     *)
(* letter case, is never valid.                                            *)
ValidatorReturned == pc = "returned" /\ call.tool = "QueryValidatorTool"

C18_QueryValidatorVerdict ==
    ValidatorReturned =>
        /\ result.is_valid = FALSE <=> result.errors # << >>
        /\ result.validation_summary.is_valid = result.is_valid
        /\ result.validation_summary.error_count = Len(result.errors)
        /\ result.validation_summary.warning_count = Len(result.warnings)
        /\ call.args.query_type # "sql" => result.is_valid = TRUE
        /\ (call.args.query_type = "sql" /\ ~Contains(Lower(call.args.query), "select"))
               => result.is_valid = FALSE

(* A sql query without select: two errors and one warning.                 *)
C18_Witness ==
    /\ ValidatorReturned
    /\ call.args.query_type = "sql"
    /\ ~Contains(Lower(call.args.query), "select")
    /\ result.is_valid = FALSE
    /\ Len(result.errors) = 2
    /\ Len(result.warnings) = 1
    /\ result.validation_summary.error_count = 2

(* C19: KPILibraryTool: with a category c that is a key of CRM_KPI_LIBRARY *)
(* the result holds exactly the KPIs of c, each once and with the id       *)
(* 'c.<metric>', whose name or description contains search_term in any     *)
(* letter case, or all KPIs of c when no search_term is given; with no     *)
(* category it does the same over all categories; with a category that is  *)
(* not a key the kpis list is empty; total_kpis_found is the length of     *)
(* kpis.  An argument is given when it is a non-empty string.              *)
KpiLibraryReturned == pc = "returned" /\ call.tool = "KPILibraryTool"

SearchHit(kpi_info) ==
    \/ ~NonEmptyString(call.args.search_term)
    \/ Contains(Lower(kpi_info.name), Lower(call.args.search_term))
    \/ Contains(Lower(kpi_info.description), Lower(call.args.search_term))

CategoriesAsked ==
    IF NonEmptyString(call.args.category)
    THEN {call.args.category} \cap DOMAIN kpi
    ELSE DOMAIN kpi

ExpectedKpiIds ==
    UNION {{category \o "." \o metric :
               metric \in {m \in DOMAIN kpi[category] : SearchHit(kpi[category][m])}} :
           category \in CategoriesAsked}

C19_KpiLibraryFilter ==
    KpiLibraryReturned =>
        LET kpis == result.kpis
        IN  /\ {kpis[i].id : i \in 1..Len(kpis)} = ExpectedKpiIds
            /\ \A i, j \in 1..Len(kpis) : kpis[i].id = kpis[j].id => i = j
            /\ \A i \in 1..Len(kpis) :
                   /\ kpis[i].category \in CategoriesAsked
                   /\ StartsWith(kpis[i].id, kpis[i].category \o ".")
            /\ (NonEmptyString(call.args.category) /\ call.args.category \notin DOMAIN kpi)
                   => kpis = << >>
            /\ result.summary.total_kpis_found = Len(kpis)

(* A search in one category with a term in another letter case than the    *)
(* table's: some KPIs of the category are found, one of them through its   *)
(* description only, and others are filtered out.                          *)
C19_Witness ==
    /\ KpiLibraryReturned
    /\ call.args.category = "sales"
    /\ call.args.search_term = "Opportunities"
    /\ Len(result.kpis) > 0
    /\ Len(result.kpis) < Cardinality(DOMAIN kpi["sales"])
    /\ \E i \in 1..Len(result.kpis) :
           ~Contains(Lower(result.kpis[i].name), Lower(call.args.search_term))

(* C20: DevLifecycleCrew.full_ticket_to_sprint_workflow builds one Crew    *)
(* with process sequential and calls kickoff() on it; the task list of     *)
(* that Crew is, in this order, batch triage of all tickets, requirements  *)
(* analysis, user-story creation, requirements validation, the testability *)
(* review and sprint planning, six tasks in all; the triage task was built *)
(* from the ticket list and every later task from the tickets joined by    *)
(* '\n---\n'.  This holds while kickoff() runs and after it has returned   *)
(* or raised.  The order in which tasks are executed is the order in which *)
(* the engine runs the task list of a sequential Crew.                     *)
WorkflowOrder ==
    <<"IntakeTasks.batch_process_tickets",
      "RequirementsTasks.analyze_requirements",
      "RequirementsTasks.create_user_stories",
      "RequirementsTasks.validate_requirements",
      "QualityTasks.review_requirements_testability",
      "PlanningTasks.plan_sprint">>

WorkflowCalled ==
    pc \in {"running", "returned"} /\ call.tool = "full_ticket_to_sprint_workflow"

C20_WorkflowTaskOrder ==
    WorkflowCalled =>
        LET tasks == kickoff.crew.tasks
        IN  /\ kickoff.crew.process = "sequential"
            /\ Len(tasks) = Len(WorkflowOrder)
            /\ \A i \in 1..Len(tasks) :
                   /\ tasks[i].factory = WorkflowOrder[i]
                   /\ tasks[i].inputs[1] =
                          IF i = 1 THEN call.args.tickets
                          ELSE Join(call.args.tickets, "\n---\n")

(* The workflow has handed its Crew to kickoff() for two tickets and       *)
(* kickoff() has returned: sprint planning is the sixth task of the Crew   *)
(* and was built from both tickets, joined.                                *)
C20_Witness ==
    /\ WorkflowCalled
    /\ pc = "returned"
    /\ "returned" \in DOMAIN result
    /\ call.args.tickets = <<"Login fails on Safari", "Add CSV export">>
    /\ Len(kickoff.crew.tasks) = 6
    /\ kickoff.crew.tasks[1].inputs[1] = call.args.tickets
    /\ kickoff.crew.tasks[6].factory = "PlanningTasks.plan_sprint"
    /\ kickoff.crew.tasks[6].inputs[1] = "Login fails on Safari\n---\nAdd CSV export"

(* C21: EntityRelationshipTool shows all relationships only if no target   *)
(* is specified: for a known source_entity, whenever target_entity is a    *)
(* non-empty string every entry of direct_relationships has the target as  *)
(* its entity, in any letter case.                                         *)
C21_AsStated ==
    (/\ pc = "returned"
     /\ call.tool = "EntityRelationshipTool"
     /\ result.success
     /\ NonEmptyString(call.args.target_entity)) =>
        \A i \in 1..Len(result.direct_relationships) :
            Lower(result.direct_relationships[i].entity) = Lower(call.args.target_entity)

(* C22: SQLQueryBuilderTool builds proper joins: for every entities list   *)
(* whose names are schema entities, each entity after the first is named   *)
(* by a line 'LEFT JOIN [<entity>]' or by a placeholder line               *)
(* '-- Add JOIN for [<entity>]' of the query, and no line joins the        *)
(* primary table to itself.                                                *)
EntityNamesOfCall ==
    LET names == Split(call.args.entities, ",")
    IN  [i \in 1..Len(names) |-> Strip(names[i])]

SQLReturnedForSchemaEntities ==
    /\ pc = "returned"
    /\ call.tool = "SQLQueryBuilderTool"
    /\ \A i \in 1..Len(EntityNamesOfCall) : EntityNamesOfCall[i] \in DOMAIN schema

C22_AsStated ==
    SQLReturnedForSchemaEntities =>
        LET names == EntityNamesOfCall
            lines == LinesOf(result.query)
            Joins(entity) ==
                \E k \in 1..Len(lines) :
                    StartsWith(lines[k], "LEFT JOIN [" \o entity \o "]")
            Placeholder(entity) ==
                \E k \in 1..Len(lines) :
                    StartsWith(lines[k], "-- Add JOIN for [" \o entity \o "]")
        IN  /\ \A i \in 2..Len(names) : Joins(names[i]) \/ Placeholder(names[i])
            /\ ~Joins(names[1])

(* C23: SQLQueryBuilderTool alias consistency: for every primary entity    *)
(* that is a key of the schema table and every aggregations value, each    *)
(* qualifier written before a '.' in the SELECT clause is the alias that   *)
(* the FROM clause declares for the primary table.                         *)
IsLetter(char) == Contains(UpperChars, char) \/ Contains(LowerChars, char)

(* The run of letters that ends just before position dot of the text.      *)
QualifierBefore(text, dot) ==
    LET others == {j \in 1..(dot - 1) : ~IsLetter(SubSeq(text, j, j))}
        start == IF others = {} THEN 1
                 ELSE (CHOOSE j \in others : \A k \in others : k <= j) + 1
    IN  SubSeq(text, start, dot - 1)

Qualifiers(text) ==
    {QualifierBefore(text, dot) : dot \in {i \in 1..Len(text) : SubSeq(text, i, i) = "."}}

SQLReturnedForPrimaryKey ==
    /\ pc = "returned"
    /\ call.tool = "SQLQueryBuilderTool"
    /\ "query" \in DOMAIN result
    /\ EntityNamesOfCall[1] \in DOMAIN schema

C23_AsStated ==
    SQLReturnedForPrimaryKey =>
        LET lines == LinesOf(result.query)
            from == CHOOSE k \in 1..Len(lines) : StartsWith(lines[k], "FROM ")
            alias == Replace(Split(lines[from], " ")[3], ";", "")
        IN  \A k \in 1..(from - 1) : Qualifiers(lines[k]) \subseteq {alias}

(***************************************************************************)
(* C24: every id DashboardDesignerTool recommends is 'category.metric'     *)
(* with category a key of CRM_KPI_LIBRARY and metric a key of that         *)
(* category, and widget_recommendations holds one widget for each of the   *)
(* first six recommended ids, at positions 1..n without gaps.              *)
(***************************************************************************)
DashboardReturned == pc = "returned" /\ call.tool = "DashboardDesignerTool"

IsLibraryKpiId(kpi_id) ==
    LET parts == Split(kpi_id, ".")
    IN  /\ Len(parts) = 2
        /\ parts[1] \in DOMAIN kpi
        /\ parts[2] \in DOMAIN kpi[parts[1]]

C24_AsStated ==
    DashboardReturned =>
        LET ids == result.recommended_kpis
            widgets == result.widget_recommendations
            n == IF Len(ids) < 6 THEN Len(ids) ELSE 6
        IN  /\ \A i \in 1..Len(ids) : IsLibraryKpiId(ids[i])
            /\ Len(widgets) = n
            /\ \A i \in 1..n : widgets[i].position = i /\ widgets[i].kpi_id = ids[i]

(***************************************************************************)
(* C25: the relationships of an ERDGeneratorTool diagram do not depend on  *)
(* the order of the entities argument: two arguments that list the same    *)
(* set of schema entities give the same set of relationships, each an      *)
(* unordered pair of entities with its cardinality, a many-to-one line     *)
(* being the mirror of a one-to-many line.                                 *)
(***************************************************************************)
RelationshipOfLine(line) ==
    LET words == LineWords(line)
        left == words[1]
        right == words[3]
    IN  CASE words[2] = "||--o{" -> [kind |-> "one-to-many", one |-> left, many |-> right]
          [] words[2] = "}o--||" -> [kind |-> "one-to-many", one |-> right, many |-> left]
          [] words[2] = "}o--o{" -> [kind |-> "many-to-many", ends |-> {left, right}]
          [] OTHER -> [kind |-> "one-to-one", ends |-> {left, right}]

RelationshipsOfDiagram(diagram) ==
    LET lines == LinesOf(diagram)
    IN  {RelationshipOfLine(lines[i]) : i \in {k \in 1..Len(lines) : IsRelationshipLine(lines[k])}}

ListsSchemaEntities(entities) ==
    /\ Lower(entities) # "all"
    /\ Range(ParseEntityList(schema, entities)) \subseteq DOMAIN schema

C25_AsStated ==
    (MermaidReturned /\ ListsSchemaEntities(call.args.entities)) =>
        \A other \in ErdEntitiesInputs :
            (/\ ListsSchemaEntities(other)
             /\ Range(ParseEntityList(schema, other))
                    = Range(ParseEntityList(schema, call.args.entities))) =>
                RelationshipsOfDiagram(
                    ERDGeneratorTool_run(schema, other, call.args.format,
                                         call.args.show_columns).diagram)
                    = RelationshipsOfDiagram(result.diagram)

(***************************************************************************)
(* C26: EntityRelationshipTool returns no relationship_paths for a         *)
(* relationship_depth of at most 1.  For a larger depth every path reads   *)
(* 'source -> r -> s', where r is the entity of a returned direct          *)
(* relationship and a key of the schema table, s is the entity of one of   *)
(* the first three relationships stored for r and is never the source      *)
(* entity; no direct relationship has more than three paths.               *)
(***************************************************************************)
RelationshipToolSucceeded ==
    pc = "returned" /\ call.tool = "EntityRelationshipTool" /\ result.success

(* The pieces of a path between its ' -> ' separators.                     *)
PathHops(path_entry) == Split(Replace(path_entry.path, " -> ", ">"), ">")

C26_RelationshipPaths ==
    RelationshipToolSucceeded =>
        LET paths == result.relationship_paths
            direct == result.direct_relationships
            source == result.source_entity
            Via(r) == {i \in 1..Len(paths) : PathHops(paths[i])[2] = r}
            DirectTo(r) == {i \in 1..Len(direct) : direct[i].entity = r}
        IN  IF call.args.relationship_depth <= 1
            THEN paths = << >>
            ELSE /\ \A i \in 1..Len(paths) :
                        LET hops == PathHops(paths[i])
                        IN  /\ Len(hops) = 3
                            /\ hops[1] = source
                            /\ DirectTo(hops[2]) # {}
                            /\ hops[2] \in DOMAIN schema
                            /\ \E k \in 1..Len(schema[hops[2]].relationships) :
                                   k <= 3 /\ schema[hops[2]].relationships[k].entity = hops[3]
                            /\ hops[3] # source
                 /\ \A r \in {direct[i].entity : i \in 1..Len(direct)} :
                        Cardinality(Via(r)) <= 3 * Cardinality(DirectTo(r))

(* A call with depth above 1 whose direct relationships include one that   *)
(* leads to an entity outside the schema table (no path) and one whose     *)
(* entity stores a relationship back to the source among its first three   *)
(* (fewer than three paths).                                               *)
C26_Witness ==
    /\ RelationshipToolSucceeded
    /\ call.args.relationship_depth > 1
    /\ result.relationship_paths # << >>
    /\ LET direct == result.direct_relationships
           paths == result.relationship_paths
       IN  /\ \E i \in 1..Len(direct) : direct[i].entity \notin DOMAIN schema
           /\ \E i \in 1..Len(direct) :
                  /\ direct[i].entity \in DOMAIN schema
                  /\ \E k \in 1..3 :
                         /\ k <= Len(schema[direct[i].entity].relationships)
                         /\ schema[direct[i].entity].relationships[k].entity
                                = result.source_entity
                  /\ \E j \in 1..Len(paths) : PathHops(paths[j])[2] = direct[i].entity

(* The same tool asked for depth 0 or 1 on an entity that has direct       *)
(* relationships.                                                          *)
C26_WitnessShallow ==
    /\ RelationshipToolSucceeded
    /\ call.args.relationship_depth <= 1
    /\ result.direct_relationships # << >>

(***************************************************************************)
(* C27: for a known entity ColumnAnalyzerTool puts every returned column   *)
(* in exactly one of primary_key, foreign_keys, lookup_references,         *)
(* data_columns and datetime_columns; total_columns is the sum of the five *)
(* sizes, foreign_key_count is the size of foreign_keys, and with          *)
(* include_system_columns=False no returned column is named CreatedOn or   *)
(* ModifiedOn.                                                             *)
(***************************************************************************)
ColumnAnalyzerSucceeded ==
    pc = "returned" /\ call.tool = "ColumnAnalyzerTool" /\ result.success

ColumnCategories ==
    {"primary_key", "foreign_keys", "lookup_references", "data_columns", "datetime_columns"}

(* How many entries of a sequence equal a value.                           *)
CountOf(seq, value) == Cardinality({i \in 1..Len(seq) : seq[i] = value})

CategorySizes ==
    <<Len(result.categorized.primary_key), Len(result.categorized.foreign_keys),
      Len(result.categorized.lookup_references), Len(result.categorized.data_columns),
      Len(result.categorized.datetime_columns)>>

C27_ColumnPartition ==
    ColumnAnalyzerSucceeded =>
        /\ DOMAIN result.categorized = ColumnCategories
        /\ \A i \in 1..Len(result.columns) :
               \E category \in ColumnCategories :
                   /\ CountOf(result.categorized[category], result.columns[i]) = 1
                   /\ \A other \in ColumnCategories \ {category} :
                          CountOf(result.categorized[other], result.columns[i]) = 0
        /\ \A category \in ColumnCategories :
               Range(result.categorized[category]) \subseteq Range(result.columns)
        /\ result.total_columns = Sum(CategorySizes)
        /\ result.total_columns = Len(result.columns)
        /\ result.analysis.foreign_key_count = Len(result.categorized.foreign_keys)
        /\ ~call.args.include_system_columns =>
               \A i \in 1..Len(result.columns) :
                   result.columns[i].name \notin {"CreatedOn", "ModifiedOn"}

(* An unfiltered call without system columns on an entity that stores      *)
(* CreatedOn and ModifiedOn and whose other columns fall in every category *)
(* but lookup_references, for which the schema table has no column.        *)
C27_Witness ==
    /\ ColumnAnalyzerSucceeded
    /\ ~call.args.include_system_columns
    /\ ~Truthy(call.args.column_filter)
    /\ {"CreatedOn", "ModifiedOn"} \subseteq
           {schema[result.entity].key_columns[i].name :
                i \in 1..Len(schema[result.entity].key_columns)}
    /\ \A category \in ColumnCategories \ {"lookup_references"} :
           result.categorized[category] # << >>
    /\ result.total_columns = Len(schema[result.entity].key_columns) - 2

(***************************************************************************)
(* C30: for every limit >= 0 TicketSearchTool returns at most limit        *)
(* tickets, and results_count is the number of entries of the returned     *)
(* tickets list.                                                           *)
(***************************************************************************)
C30_AsStated ==
    (pc = "returned" /\ call.tool = "TicketSearchTool" /\ call.args.limit >= 0) =>
        /\ Len(result.tickets) <= call.args.limit
        /\ result.results_count = Len(result.tickets)

(***************************************************************************)
(* C28: the interactive session of the DevLifecycle CLI.  In every step of *)
(* the loop: the session ends only on a line whose first word is exit or   *)
(* quit in any letter case; a blank line, help, a command without text and *)
(* an unknown command do not call the crew; triage, analyze and status     *)
(* with text call process_ticket, analyze_requirements and                 *)
(* generate_status_report exactly once; and whatever a crew call or the    *)
(* prompt raises is reported and the loop is back at the prompt.           *)
(***************************************************************************)
(* The words of a line: its pieces between whitespace characters.          *)
WordsOfLine(line) ==
    LET spaced == Join([i \in 1..Len(line) |->
                           IF CharAt(line, i) \in WhitespaceChars THEN " "
                           ELSE CharAt(line, i)], "")
    IN  SelectSeq(Split(spaced, " "), LAMBDA word : word # "")

CrewCommands ==
    [triage |-> "process_ticket",
     analyze |-> "analyze_requirements",
     status |-> "generate_status_report"]

CallsCrew(line) ==
    /\ line # None
    /\ Len(WordsOfLine(line)) >= 2
    /\ Lower(WordsOfLine(line)[1]) \in DOMAIN CrewCommands

InSession == pc = "interactive"

SessionStep ==
    /\ (InSession /\ session.at = "prompt") =>
           LET line == session'.user_input
           IN  /\ pc' = "interactive"
               /\ session'.at = "ended" =>
                      /\ line # None
                      /\ WordsOfLine(line) # << >>
                      /\ Lower(WordsOfLine(line)[1]) \in {"exit", "quit"}
               /\ IF CallsCrew(line)
                  THEN /\ session'.at = "crew"
                       /\ Len(session'.invoked) = 1
                       /\ session'.invoked[1].method
                              = CrewCommands[Lower(WordsOfLine(line)[1])]
                  ELSE /\ session'.at # "crew"
                       /\ session'.invoked = << >>
               /\ line = None => session'.at = "prompt" /\ session'.printed # None
    /\ (InSession /\ session.at = "crew") =>
           /\ pc' = "interactive"
           /\ session'.at = "prompt"
           /\ session'.invoked = session.invoked
           /\ session'.user_input = session.user_input
           /\ session'.printed # None
    /\ (InSession /\ pc' # "interactive") => session.at = "ended"

C28_InteractiveSession == [][SessionStep]_vars

(* The loop is back at the prompt after process_ticket, called once for a  *)
(* triage line, raised an exception that was reported.                     *)
C28_Witness ==
    /\ InSession
    /\ session.at = "prompt"
    /\ Len(session.invoked) = 1
    /\ session.invoked[1].method = "process_ticket"
    /\ StartsWith(session.printed, "[red]Error: ")

(* The session has ended on a line that starts with QUIT or Exit.          *)
C28_WitnessEnded ==
    /\ InSession
    /\ session.at = "ended"
    /\ WordsOfLine(session.user_input)[1] \notin {"exit", "quit"}

(***************************************************************************)
(* C29: run_custom_workflow of CreatioCRMCrew and of DevLifecycleCrew,     *)
(* given agent names and task types that are arbitrary strings, raises no  *)
(* exception of its own: entries with an unrecognised type are skipped, the tasks of  *)
(* the other entries keep the order of the configuration, and when none is *)
(* left the method returns 'No valid tasks configured' and kicks off no    *)
(* Crew.                                                                   *)
(***************************************************************************)
CustomWorkflowCalled ==
    /\ pc \in {"running", "returned"}
    /\ call.tool \in {"CreatioCRMCrew.run_custom_workflow",
                      "DevLifecycleCrew.run_custom_workflow"}

RecognisedTypes ==
    IF call.tool = "CreatioCRMCrew.run_custom_workflow"
    THEN [explore_entity |-> "SchemaAnalysisTasks.explore_entity",
          build_query |-> "QueryTasks.build_query_from_question",
          define_kpi |-> "MetricsTasks.define_kpi",
          generate_documentation |-> "DocumentationTasks.generate_entity_documentation"]
    ELSE [triage |-> "IntakeTasks.triage_ticket",
          analyze_requirements |-> "RequirementsTasks.analyze_requirements",
          create_stories |-> "RequirementsTasks.create_user_stories",
          plan_sprint |-> "PlanningTasks.plan_sprint",
          status_report |-> "SDLCTasks.generate_status_report"]

(* The factories of the entries whose type is recognised, in config order. *)
ExpectedFactories ==
    LET config == call.args.workflow_config
        entries == IF "tasks" \in DOMAIN config THEN config.tasks ELSE << >>
        kept == SelectSeq(entries, LAMBDA entry : /\ "type" \in DOMAIN entry
                                                  /\ entry.type \in DOMAIN RecognisedTypes)
    IN  [i \in 1..Len(kept) |-> RecognisedTypes[kept[i].type]]

C29_AsStated ==
    CustomWorkflowCalled =>
        /\ kickoff = NoKickoff => "raised" \notin DOMAIN result
        /\ IF ExpectedFactories = << >>
           THEN /\ pc = "returned"
                /\ result = [returned |-> "No valid tasks configured"]
                /\ kickoff = NoKickoff
           ELSE /\ kickoff # NoKickoff
                /\ [i \in 1..Len(kickoff.crew.tasks) |-> kickoff.crew.tasks[i].factory]
                       = ExpectedFactories
===========================================================================
